---- MODULE Spec2Model ----
(***************************************************************************)
(* A model of the Jira AI assistant's execution layer: the JQL executor,   *)
(* the permission filter, the response validator (with its grounded        *)
(* renderer) and the orchestrator that sequences them.                     *)
(*                                                                         *)
(* Text is modelled as a sequence of lexical units (tokens): a word, a     *)
(* number, an issue key, a punctuation mark, a status or priority value,   *)
(* or a line break (NL).  Adjacent units are separated by white space or   *)
(* by a word boundary.  Regular expressions of the source become           *)
(* predicates over token sequences.  Strings are opaque to TLC, so the     *)
(* character-level functions the source applies to them (lower(),          *)
(* split('-'), int(), the digits a token ends with) are tables over the    *)
(* model's finite vocabulary.                                              *)
(***************************************************************************)
EXTENDS Integers, Sequences, FiniteSets, TLC

VARIABLES
    issues,       \* the record universe: data['issues'], shared by every component
    permissions,  \* PermissionFilter.permissions: user id -> profile
    pc,           \* "call": the operation is about to run; "done": it has returned
    op,           \* the operation called
    arg,          \* its arguments
    res           \* what it returned (<<>> before it returns)

vars == <<issues, permissions, pc, op, arg, res>>

\* ------------------------------------------------------------------ bounds

\* Largest record universe the JQL executor is constructed over.
MaxIssues == 3
\* Longest record list a caller hands to the validator or the filter.
MaxRetrieved == 2
\* Longest answer text (in tokens) handed to validate directly.
MaxTextLen == 3
\* Most AND-joined clauses in a structured query.
MaxClauses == 2

\* ------------------------------------------------------ strings and tokens

\* JSON null / Python None, a dictionary key that is not there, and the list
\* standing for a list-valued key that is not there.
None == "<None>"
Missing == "<missing>"
MissingList == <<"<missing>">>

\* A line break inside a text.
NL == "<NL>"

\* str.lower() on the vocabulary: every string with an upper-case letter that
\* the model uses is listed; any other string is already lower case.
LowerTable ==
    [s \in {" Chen", " Do", " OAuth authentication flow", " Progress",
            " Review", " Rivera", "'Blocked'", "'Bug'", "'Critical'",
            "'Done'", "'FIN'", "'In Progress'", "'In Review'", "'Low'",
            "'SEC'", "'Sarah Chen'", "'Task'", "'To Do'", "(Done)", "(FIN)",
            "(High, critical)", "(In Progress)", "2024-01-01T10:00:00Z",
            "2024-01-02T10:00:00Z", "2024-01-05T10:00:00+00:00",
            "2024-01-05T10:00:00Z", "2024-01-10T00:00:00Z",
            "2024-01-10T10:00:00Z", "2024-01-12T10:00:00Z",
            "2024-01-15T10:00:00Z", "2024-01-18T10:00:00Z",
            "2024-01-20T10:00:00Z", "AND", "ASC", "Alex", "Alex Rivera",
            "An error occurred while searching", "Assignee mismatch",
            "Assignee:", "Audit", "Audit firewall rules", "BY", "Backend",
            "Blocked",
            "Both structured filters and conceptual elements detected",
            "Bug", "Chen", "Client Portal",
            "Conceptual/fuzzy query detected", "Could", "Count mismatch",
            "Count query with explicit filters", "Critical", "DESC",
            "Detected JQL fields", "Done", "EMPTY", "Epic", "F", "FAKE",
            "FAKE-999", "FIN", "FIN-10", "FIN-101", "FIN-102", "Fix",
            "Fix critical login bug", "Fixed", "Found", "Frontend",
            "Hallucinated issue key", "High", "How", "I", "IN", "IS",
            "IS EMPTY", "IS NOT EMPTY", "IS NOT NULL", "IS NULL",
            "Implement", "Implement OAuth authentication flow", "In",
            "In Progress", "In Review",
            "Issue mentioned but not in retrieved results", "Issues",
            "JQL execution error", "JQL execution failed",
            "JQL filter failed", "Labels:", "Low", "Medium", "NOT", "NOT IN",
            "NULL", "No",
            "No clear structure detected, defaulting to semantic search",
            "None", "OAuth", "ORDER", "Old", "Old ledger export", "Please",
            "Priority mismatch", "Priority:", "Progress",
            "Query produced no searchable terms", "Query too short",
            "Review", "Review vendor access", "Rivera", "S", "SEC",
            "SEC-201", "SEC-202", "Sarah", "Sarah Chen", "Security",
            "Semantic search failed", "Show", "Spike", "Sprint 1",
            "Status mismatch", "Status:", "Story", "Task", "There", "This",
            "To", "To Do", "Try", "Unable to parse JQL clause", "Unassigned",
            "Unknown query mode", "You"} |->
        CASE s = " Chen" -> " chen"
          [] s = " Do" -> " do"
          [] s = " OAuth authentication flow" -> " oauth authentication flow"
          [] s = " Progress" -> " progress"
          [] s = " Review" -> " review"
          [] s = " Rivera" -> " rivera"
          [] s = "'Blocked'" -> "'blocked'"
          [] s = "'Bug'" -> "'bug'"
          [] s = "'Critical'" -> "'critical'"
          [] s = "'Done'" -> "'done'"
          [] s = "'FIN'" -> "'fin'"
          [] s = "'In Progress'" -> "'in progress'"
          [] s = "'In Review'" -> "'in review'"
          [] s = "'Low'" -> "'low'"
          [] s = "'SEC'" -> "'sec'"
          [] s = "'Sarah Chen'" -> "'sarah chen'"
          [] s = "'Task'" -> "'task'"
          [] s = "'To Do'" -> "'to do'"
          [] s = "(Done)" -> "(done)"
          [] s = "(FIN)" -> "(fin)"
          [] s = "(High, critical)" -> "(high, critical)"
          [] s = "(In Progress)" -> "(in progress)"
          [] s = "2024-01-01T10:00:00Z" -> "2024-01-01t10:00:00z"
          [] s = "2024-01-02T10:00:00Z" -> "2024-01-02t10:00:00z"
          [] s = "2024-01-05T10:00:00+00:00" -> "2024-01-05t10:00:00+00:00"
          [] s = "2024-01-05T10:00:00Z" -> "2024-01-05t10:00:00z"
          [] s = "2024-01-10T00:00:00Z" -> "2024-01-10t00:00:00z"
          [] s = "2024-01-10T10:00:00Z" -> "2024-01-10t10:00:00z"
          [] s = "2024-01-12T10:00:00Z" -> "2024-01-12t10:00:00z"
          [] s = "2024-01-15T10:00:00Z" -> "2024-01-15t10:00:00z"
          [] s = "2024-01-18T10:00:00Z" -> "2024-01-18t10:00:00z"
          [] s = "2024-01-20T10:00:00Z" -> "2024-01-20t10:00:00z"
          [] s = "AND" -> "and"
          [] s = "ASC" -> "asc"
          [] s = "Alex" -> "alex"
          [] s = "Alex Rivera" -> "alex rivera"
          [] s = "An error occurred while searching" -> "an error occurred while searching"
          [] s = "Assignee mismatch" -> "assignee mismatch"
          [] s = "Assignee:" -> "assignee:"
          [] s = "Audit" -> "audit"
          [] s = "Audit firewall rules" -> "audit firewall rules"
          [] s = "BY" -> "by"
          [] s = "Backend" -> "backend"
          [] s = "Blocked" -> "blocked"
          [] s = "Both structured filters and conceptual elements detected" -> "both structured filters and conceptual elements detected"
          [] s = "Bug" -> "bug"
          [] s = "Chen" -> "chen"
          [] s = "Client Portal" -> "client portal"
          [] s = "Conceptual/fuzzy query detected" -> "conceptual/fuzzy query detected"
          [] s = "Could" -> "could"
          [] s = "Count mismatch" -> "count mismatch"
          [] s = "Count query with explicit filters" -> "count query with explicit filters"
          [] s = "Critical" -> "critical"
          [] s = "DESC" -> "desc"
          [] s = "Detected JQL fields" -> "detected jql fields"
          [] s = "Done" -> "done"
          [] s = "EMPTY" -> "empty"
          [] s = "Epic" -> "epic"
          [] s = "F" -> "f"
          [] s = "FAKE" -> "fake"
          [] s = "FAKE-999" -> "fake-999"
          [] s = "FIN" -> "fin"
          [] s = "FIN-10" -> "fin-10"
          [] s = "FIN-101" -> "fin-101"
          [] s = "FIN-102" -> "fin-102"
          [] s = "Fix" -> "fix"
          [] s = "Fix critical login bug" -> "fix critical login bug"
          [] s = "Fixed" -> "fixed"
          [] s = "Found" -> "found"
          [] s = "Frontend" -> "frontend"
          [] s = "Hallucinated issue key" -> "hallucinated issue key"
          [] s = "High" -> "high"
          [] s = "How" -> "how"
          [] s = "I" -> "i"
          [] s = "IN" -> "in"
          [] s = "IS" -> "is"
          [] s = "IS EMPTY" -> "is empty"
          [] s = "IS NOT EMPTY" -> "is not empty"
          [] s = "IS NOT NULL" -> "is not null"
          [] s = "IS NULL" -> "is null"
          [] s = "Implement" -> "implement"
          [] s = "Implement OAuth authentication flow" -> "implement oauth authentication flow"
          [] s = "In" -> "in"
          [] s = "In Progress" -> "in progress"
          [] s = "In Review" -> "in review"
          [] s = "Issue mentioned but not in retrieved results" -> "issue mentioned but not in retrieved results"
          [] s = "Issues" -> "issues"
          [] s = "JQL execution error" -> "jql execution error"
          [] s = "JQL execution failed" -> "jql execution failed"
          [] s = "JQL filter failed" -> "jql filter failed"
          [] s = "Labels:" -> "labels:"
          [] s = "Low" -> "low"
          [] s = "Medium" -> "medium"
          [] s = "NOT" -> "not"
          [] s = "NOT IN" -> "not in"
          [] s = "NULL" -> "null"
          [] s = "No" -> "no"
          [] s = "No clear structure detected, defaulting to semantic search" -> "no clear structure detected, defaulting to semantic search"
          [] s = "None" -> "none"
          [] s = "OAuth" -> "oauth"
          [] s = "ORDER" -> "order"
          [] s = "Old" -> "old"
          [] s = "Old ledger export" -> "old ledger export"
          [] s = "Please" -> "please"
          [] s = "Priority mismatch" -> "priority mismatch"
          [] s = "Priority:" -> "priority:"
          [] s = "Progress" -> "progress"
          [] s = "Query produced no searchable terms" -> "query produced no searchable terms"
          [] s = "Query too short" -> "query too short"
          [] s = "Review" -> "review"
          [] s = "Review vendor access" -> "review vendor access"
          [] s = "Rivera" -> "rivera"
          [] s = "S" -> "s"
          [] s = "SEC" -> "sec"
          [] s = "SEC-201" -> "sec-201"
          [] s = "SEC-202" -> "sec-202"
          [] s = "Sarah" -> "sarah"
          [] s = "Sarah Chen" -> "sarah chen"
          [] s = "Security" -> "security"
          [] s = "Semantic search failed" -> "semantic search failed"
          [] s = "Show" -> "show"
          [] s = "Spike" -> "spike"
          [] s = "Sprint 1" -> "sprint 1"
          [] s = "Status mismatch" -> "status mismatch"
          [] s = "Status:" -> "status:"
          [] s = "Story" -> "story"
          [] s = "Task" -> "task"
          [] s = "There" -> "there"
          [] s = "This" -> "this"
          [] s = "To" -> "to"
          [] s = "To Do" -> "to do"
          [] s = "Try" -> "try"
          [] s = "Unable to parse JQL clause" -> "unable to parse jql clause"
          [] s = "Unassigned" -> "unassigned"
          [] s = "Unknown query mode" -> "unknown query mode"
          [] s = "You" -> "you"]

Lower(s) == IF s \in DOMAIN LowerTable THEN LowerTable[s] ELSE s

\* str.upper() on the few strings the source upper-cases (the ORDER BY direction).
Upper(s) ==
    CASE Lower(s) = "asc" -> "ASC" [] Lower(s) = "desc" -> "DESC" [] OTHER -> s

LowerSeq(t) == [i \in DOMAIN t |-> Lower(t[i])]

\* key.split('-')[0]: the project code of an identifier.
ProjectOf(key) ==
    CASE key \in {"FIN-101", "FIN-102", "FIN-10"} -> "FIN"
      [] key \in {"SEC-201", "SEC-202"} -> "SEC"
      [] key = "FAKE-999" -> "FAKE"
      [] OTHER -> key

\* The words of a multi-word string, as they appear when the string is put
\* into a text; a string not listed is one unit.
Tokens(s) ==
    CASE s = "Implement OAuth authentication flow" ->
             <<"Implement", "OAuth", "authentication", "flow">>
      [] s = "Fix critical login bug" -> <<"Fix", "critical", "login", "bug">>
      [] s = "Old ledger export" -> <<"Old", "ledger", "export">>
      [] s = "Audit firewall rules" -> <<"Audit", "firewall", "rules">>
      [] s = "Review vendor access" -> <<"Review", "vendor", "access">>
      [] s = "Sarah Chen" -> <<"Sarah", "Chen">>
      [] s = "Alex Rivera" -> <<"Alex", "Rivera">>
      [] s = "" -> <<>>
      [] OTHER -> <<s>>

\* int(str) and str(int) for the count tokens.
NumTok(n) == ToString(n)
IsNumTok(t) == \E n \in 0..9 : ToString(n) = t
NumVal(t) == CHOOSE n \in 0..9 : ToString(n) = t

\* ------------------------------------------------------ sequence helpers

RECURSIVE Concat(_)
\* ''.join over a sequence of token sequences.
Concat(ss) == IF ss = <<>> THEN <<>> ELSE Head(ss) \o Concat(Tail(ss))

RECURSIVE JoinWith(_, _)
\* sep.join(parts), parts and sep being token sequences.
JoinWith(parts, sep) ==
    IF parts = <<>> THEN <<>>
    ELSE IF Len(parts) = 1 THEN parts[1]
    ELSE parts[1] \o sep \o JoinWith(Tail(parts), sep)

Range(s) == {s[i] : i \in DOMAIN s}

\* The order-preserving sub-lists of s with at most n elements.
RECURSIVE SubSeqs(_, _)
SubSeqs(s, n) ==
    IF s = <<>> \/ n = 0 THEN {<<>>}
    ELSE SubSeqs(Tail(s), n) \cup {<<Head(s)>> \o t : t \in SubSeqs(Tail(s), n - 1)}

\* ------------------------------------------------------------ the data

\* The enumerations of the record store (data['statuses'], data['priorities'],
\* data['issue_types'], data['projects']); the classifier carries the same lists.
ValidStatuses == {"To Do", "In Progress", "In Review", "Done", "Blocked"}
ValidPriorities == {"Critical", "High", "Medium", "Low"}
ValidTypes == {"Bug", "Story", "Task", "Spike", "Epic"}
ValidProjects == {"FIN", "SEC"}

\* The records the universes are drawn from.  A record is a dictionary: the
\* keys the source subscripts (key, summary, status, priority, type, assignee,
\* reporter, created, updated) are always there, assignee and reporter being
\* None or a display name; the keys the source reads with .get() (description,
\* labels, components, comments, resolution, sprint) may be Missing.
MockIssues ==
    << [key |-> "FIN-101", summary |-> "Implement OAuth authentication flow",
        description |-> "oauth login", status |-> "In Progress",
        priority |-> "High", type |-> "Story",
        assignee |-> "Sarah Chen", reporter |-> "Alex Rivera",
        labels |-> <<"security", "compliance">>, components |-> <<"Backend">>,
        comments |-> <<"looks good">>,
        created |-> "2024-01-10T10:00:00Z", updated |-> "2024-01-20T10:00:00Z",
        resolution |-> Missing, sprint |-> "Sprint 1", redacted |-> FALSE],
       [key |-> "SEC-201", summary |-> "Audit firewall rules",
        description |-> None, status |-> "Done",
        priority |-> "Critical", type |-> "Task",
        assignee |-> "Alex Rivera", reporter |-> "Sarah Chen",
        labels |-> <<"compliance">>, components |-> <<"Security">>,
        comments |-> <<"internal note">>,
        created |-> "2024-01-05T10:00:00Z", updated |-> "2024-01-15T10:00:00Z",
        resolution |-> "Fixed", sprint |-> None, redacted |-> FALSE],
       [key |-> "FIN-10", summary |-> "Old ledger export",
        description |-> "", status |-> "Done",
        priority |-> "Low", type |-> "Task",
        assignee |-> "Sarah Chen", reporter |-> None,
        labels |-> MissingList, components |-> MissingList,
        comments |-> MissingList,
        created |-> "2024-01-01T10:00:00Z", updated |-> "2024-01-02T10:00:00Z",
        resolution |-> "Fixed", sprint |-> Missing, redacted |-> FALSE],
       [key |-> "FIN-102", summary |-> "Fix critical login bug",
        description |-> Missing, status |-> "To Do",
        priority |-> "Medium", type |-> "Bug",
        assignee |-> None, reporter |-> "Alex Rivera",
        labels |-> <<>>, components |-> <<"Frontend">>,
        comments |-> <<>>,
        created |-> "2024-01-12T10:00:00Z", updated |-> "2024-01-12T10:00:00Z",
        resolution |-> None, sprint |-> "Sprint 1", redacted |-> FALSE],
       [key |-> "SEC-202", summary |-> "Review vendor access",
        description |-> "vendor audit", status |-> "Blocked",
        priority |-> "High", type |-> "Story",
        assignee |-> None, reporter |-> None,
        labels |-> <<"security">>, components |-> <<"Security", "Frontend">>,
        comments |-> <<>>,
        created |-> "2024-01-15T10:00:00Z", updated |-> "2024-01-18T10:00:00Z",
        resolution |-> Missing, sprint |-> None, redacted |-> FALSE] >>

\* The record universes a run may start with: the sub-lists of MockIssues.
Universes == SubSeqs(MockIssues, MaxIssues) \ {<<>>}

\* dict.get(key, default) for the keys that may be missing.
GetList(v) == IF v = MissingList THEN <<>> ELSE v

\* The permission table (data/user_permissions.json): every profile carries
\* all five settings, so the .get() defaults of filter_issues are not used.
MockPermissions ==
    [u \in {"user-001", "user-003", "user-005", "user-008", "user-010",
            "user-012", "user-014", "guest-user"} |->
        CASE u = "user-001" ->
               [projects |-> {"FIN", "SEC"}, can_view_all_issues |-> TRUE,
                viewable_components |-> {}, restricted_labels |-> {},
                can_view_comments |-> TRUE]
          [] u = "user-003" ->
               [projects |-> {"FIN"}, can_view_all_issues |-> TRUE,
                viewable_components |-> {}, restricted_labels |-> {"compliance"},
                can_view_comments |-> TRUE]
          [] u = "user-005" ->
               [projects |-> {"FIN"}, can_view_all_issues |-> TRUE,
                viewable_components |-> {}, restricted_labels |-> {},
                can_view_comments |-> TRUE]
          [] u = "user-008" ->
               [projects |-> {"FIN"}, can_view_all_issues |-> FALSE,
                viewable_components |-> {"Client Portal", "Frontend"},
                restricted_labels |-> {}, can_view_comments |-> TRUE]
          [] u = "user-010" ->
               [projects |-> {"FIN"}, can_view_all_issues |-> TRUE,
                viewable_components |-> {}, restricted_labels |-> {},
                can_view_comments |-> FALSE]
          [] u = "user-012" ->
               [projects |-> {"FIN", "SEC"}, can_view_all_issues |-> TRUE,
                viewable_components |-> {}, restricted_labels |-> {"*"},
                can_view_comments |-> TRUE]
          [] u = "user-014" ->
               [projects |-> {"FIN", "SEC"}, can_view_all_issues |-> TRUE,
                viewable_components |-> {}, restricted_labels |-> {"*", "compliance"},
                can_view_comments |-> TRUE]
          [] OTHER ->
               [projects |-> {}, can_view_all_issues |-> FALSE,
                viewable_components |-> {}, restricted_labels |-> {},
                can_view_comments |-> TRUE]]

\* The identities a caller may present; "unknown-hacker" has no profile.
UserIds == DOMAIN MockPermissions \cup {"unknown-hacker"}

\* ------------------------------------------------- the response validator

\* ResponseValidator.__init__: the keys of the whole record universe.
valid_issue_keys == {issues[i].key : i \in DOMAIN issues}

\* The tokens that the pattern \b[A-Z]{2,10}-\d{1,6}\b matches as a whole.
KeyPatternTokens ==
    {"FIN-101", "FIN-102", "FIN-10", "SEC-201", "SEC-202", "FAKE-999"}

\* Tokens that hold a character other than a letter or white space.
Punctuation ==
    {".", ",", ":", "-", "[", "]", "|", "**", "(s)", "(s):", "...",
     "Status:", "Priority:", "Assignee:", "Labels:", "bullet", "(", "):"}

\* A variant that reads only the first token of the text.
ExtractIssueKeysFirstOnly(text) == {text[i] : i \in DOMAIN text \cap {1}} \cap KeyPatternTokens
\* _extract_issue_keys: list(set(re.findall(pattern, text))).
ExtractIssueKeys(text) == Range(text) \cap KeyPatternTokens

\* re.escape(key) under IGNORECASE carries no word boundary: it is found in a
\* token equal to the key and in a token the key is a part of.
KeyOccursIn(key, tok) ==
    \/ Lower(tok) = Lower(key)
    \/ <<Lower(key), Lower(tok)>> \in {<<"fin-10", "fin-101">>, <<"fin-10", "fin-102">>}

\* (\d+) read at the end of a token (the digits a token ends with) and at the
\* start of a token; -1 when there are none.
TrailingDigits(tok) ==
    CASE IsNumTok(tok) -> NumVal(tok)
      [] tok = "fin-101" -> 101 [] tok = "fin-102" -> 102 [] tok = "fin-10" -> 10
      [] tok = "sec-201" -> 201 [] tok = "sec-202" -> 202 [] tok = "fake-999" -> 999
      [] OTHER -> -1

LeadingDigits(tok) == IF IsNumTok(tok) THEN NumVal(tok) ELSE -1

TokAt(t, i) == IF i \in DOMAIN t THEN t[i] ELSE ""

\* \s+ between two tokens: the line breaks that may stand between them.
RECURSIVE NextNonNL(_, _)
NextNonNL(t, i) ==
    IF i \in DOMAIN t /\ t[i] = NL THEN NextNonNL(t, i + 1) ELSE i

Idx(t) == [i \in 1..Len(t) |-> i]

\* re.findall of the five count patterns on response.lower(): the claimed
\* counts, pattern by pattern, each in text order.
CountClaims(t) ==
    LET after(i) == NextNonNL(t, i + 1)
        p1 == SelectSeq(Idx(t), LAMBDA i :
                  TrailingDigits(t[i]) >= 0 /\ TokAt(t, after(i)) \in {"issue", "issues"})
        p2 == SelectSeq(Idx(t), LAMBDA i :
                  TrailingDigits(t[i]) >= 0 /\ TokAt(t, after(i)) \in {"ticket", "tickets"})
        p3 == SelectSeq(Idx(t), LAMBDA i :
                  /\ t[i] = "there"
                  /\ TokAt(t, after(i)) = "are"
                  /\ LeadingDigits(TokAt(t, after(after(i)))) >= 0)
        p4 == SelectSeq(Idx(t), LAMBDA i :
                  t[i] = "found" /\ LeadingDigits(TokAt(t, after(i))) >= 0)
        p5 == SelectSeq(Idx(t), LAMBDA i :
                  /\ t[i] = "total"
                  /\ TokAt(t, after(i)) = "of"
                  /\ LeadingDigits(TokAt(t, after(after(i)))) >= 0)
    IN  [i \in DOMAIN p1 |-> TrailingDigits(t[p1[i]])]
        \o [i \in DOMAIN p2 |-> TrailingDigits(t[p2[i]])]
        \o [i \in DOMAIN p3 |-> LeadingDigits(t[after(after(p3[i]))])]
        \o [i \in DOMAIN p4 |-> LeadingDigits(t[after(p4[i])])]
        \o [i \in DOMAIN p5 |-> LeadingDigits(t[after(after(p5[i]))])]

\* An error message: its fixed wording (kind) and the values formatted into it.
Msg(kind, key, claimed, actual) ==
    [kind |-> kind, key |-> key, claimed |-> claimed, actual |-> actual]

\* A variant that only objects to a claimed count above the actual one.
ValidateCountsOverOnly(response, retrieved_issues) ==
    LET actual_count == Len(retrieved_issues)
        claims == CountClaims(LowerSeq(response))
        bad == SelectSeq(claims, LAMBDA c : c > actual_count)
    IN  [errors |-> {Msg("Count mismatch", "", ToString(bad[i]), ToString(actual_count)) :
                        i \in DOMAIN bad},
         invalid_counts |-> [i \in DOMAIN bad |->
                                [claimed |-> bad[i], actual |-> actual_count]]]
\* _validate_counts.  The messages are kept as a set: validate only tests
\* whether there are any.
ValidateCounts(response, retrieved_issues) ==
    LET actual_count == Len(retrieved_issues)
        claims == CountClaims(LowerSeq(response))
        bad == SelectSeq(claims, LAMBDA c : c # actual_count)
    IN  [errors |-> {Msg("Count mismatch", "", ToString(bad[i]), ToString(actual_count)) :
                        i \in DOMAIN bad},
         invalid_counts |-> [i \in DOMAIN bad |->
                                [claimed |-> bad[i], actual |-> actual_count]]]

\* {issue['key']: issue[...] for issue in retrieved_issues}: the last record
\* with the key wins.
RetrievedKeys(retrieved_issues) ==
    {retrieved_issues[i].key : i \in DOMAIN retrieved_issues}

RecordOf(retrieved_issues, key) ==
    LET at == {i \in DOMAIN retrieved_issues : retrieved_issues[i].key = key}
    IN  retrieved_issues[CHOOSE i \in at : \A j \in at : j <= i]

\* re.search(rf'{key}.*?\b{value}\b', response, re.IGNORECASE): the key, then
\* on the same line (. matches no line break) the value as a whole word.
ClaimedNear(response, key, value) ==
    \E i \in DOMAIN response : \E j \in DOMAIN response :
        /\ i < j
        /\ KeyOccursIn(key, response[i])
        /\ Lower(response[j]) = Lower(value)
        /\ \A m \in i..j : response[m] # NL

\* _validate_status_claims.
ValidateStatusClaims(response, retrieved_issues) ==
    LET bad == {kv \in (ExtractIssueKeys(response) \cap RetrievedKeys(retrieved_issues))
                          \X ValidStatuses :
                   /\ ClaimedNear(response, kv[1], kv[2])
                   /\ Lower(kv[2]) # Lower(RecordOf(retrieved_issues, kv[1]).status)}
    IN  [errors |-> {Msg("Status mismatch", kv[1], kv[2],
                         RecordOf(retrieved_issues, kv[1]).status) : kv \in bad},
         invalid_statuses |-> {[key |-> kv[1], claimed |-> kv[2],
                                actual |-> RecordOf(retrieved_issues, kv[1]).status] :
                                  kv \in bad}]

\* _validate_priority_claims (the optional "\s+priority" tail of its pattern
\* does not change whether the pattern is found).
ValidatePriorityClaims(response, retrieved_issues) ==
    LET bad == {kv \in (ExtractIssueKeys(response) \cap RetrievedKeys(retrieved_issues))
                          \X ValidPriorities :
                   /\ ClaimedNear(response, kv[1], kv[2])
                   /\ Lower(kv[2]) # Lower(RecordOf(retrieved_issues, kv[1]).priority)}
    IN  [errors |-> {Msg("Priority mismatch", kv[1], kv[2],
                         RecordOf(retrieved_issues, kv[1]).priority) : kv \in bad},
         invalid_priorities |-> {[key |-> kv[1], claimed |-> kv[2],
                                  actual |-> RecordOf(retrieved_issues, kv[1]).priority] :
                                    kv \in bad}]

\* A token of the class [A-Za-z\s]: letters and blanks only.
IsNameToken(tok) ==
    tok = NL \/ (~IsNumTok(tok) /\ tok \notin KeyPatternTokens /\ tok \notin Punctuation)

\* Is a a contiguous part of b.
IsInfix(a, b) ==
    \E k \in 0..(Len(b) - Len(a)) : \A i \in DOMAIN a : b[k + i] = a[i]

\* str.strip() of a captured group: leading and trailing line breaks go.
RECURSIVE Strip(_)
Strip(t) ==
    IF t = <<>> THEN t
    ELSE IF Head(t) = NL THEN Strip(Tail(t))
    ELSE IF t[Len(t)] = NL THEN Strip(SubSeq(t, 1, Len(t) - 1))
    ELSE t

\* re.search(rf'{key}.*?assigned\s+to\s+([A-Za-z\s]+?)(?:\.|,|$)', response,
\* re.IGNORECASE).  A match is fixed by the key's place i and the place a of
\* "assigned" on the same line; the group runs from the token after "to" up
\* to the first '.' or ',' or the end of the text, and every token of it is in
\* [A-Za-z\s].  re.search takes the leftmost i and, .*? being lazy, the nearest
\* a.  The result is <<>> for no match, else <<group(1).strip() as tokens>>.
AssignMatch(response, key) ==
    LET n == Len(response)
        to(a) == NextNonNL(response, a + 1)
        start(a) == NextNonNL(response, to(a) + 1)
        stops(a) == {e \in start(a)..n : response[e] \in {".", ","}}
        end(a) == IF stops(a) = {} THEN n + 1
                  ELSE CHOOSE e \in stops(a) : \A f \in stops(a) : e <= f
        ok(i, a) ==
            /\ i < a
            /\ KeyOccursIn(key, response[i])
            /\ \A m \in i..a : response[m] # NL
            /\ Lower(response[a]) = "assigned"
            /\ Lower(TokAt(response, to(a))) = "to"
            /\ start(a) <= n
            /\ end(a) > start(a)
            /\ \A m \in start(a)..(end(a) - 1) : IsNameToken(response[m])
        hits == {ia \in (1..n) \X (1..n) : ok(ia[1], ia[2])}
        first == CHOOSE h \in hits : \A g \in hits :
                     h[1] < g[1] \/ (h[1] = g[1] /\ h[2] <= g[2])
    IN  IF hits = {} THEN <<>>
        ELSE <<Strip(SubSeq(response, start(first[2]), end(first[2]) - 1))>>

\* _validate_assignee_claims.  `claimed in actual` between strings becomes
\* "the claimed words are a contiguous part of the actual name's words".
ValidateAssigneeClaims(response, retrieved_issues) ==
    LET keys == ExtractIssueKeys(response) \cap RetrievedKeys(retrieved_issues)
        actual(k) == RecordOf(retrieved_issues, k).assignee
        claimed(k) == AssignMatch(response, k)[1]
        bad == {k \in keys :
                   /\ AssignMatch(response, k) # <<>>
                   /\ \/ actual(k) = None
                      \/ ~IsInfix(LowerSeq(claimed(k)), LowerSeq(Tokens(actual(k))))}
    IN  [errors |-> {Msg("Assignee mismatch", k, "",
                         IF actual(k) = None THEN "unassigned" ELSE actual(k)) :
                        k \in bad},
         invalid_assignees |-> {[key |-> k, claimed |-> claimed(k),
                                 actual |-> IF actual(k) = None THEN "Unassigned"
                                            ELSE actual(k)] : k \in bad}]

\* A variant for which a warning is a failure as well.
ValidationResultWarningsFail(response, valid_keys_for_response, mentioned_keys, count_validation, status_validation, priority_validation, assignee_validation) ==
    LET hallucinated_keys == {k \in mentioned_keys : k \notin valid_issue_keys}
        errors == {Msg("Hallucinated issue key", k, "", "") : k \in hallucinated_keys}
                    \cup count_validation.errors \cup status_validation.errors
                    \cup priority_validation.errors \cup assignee_validation.errors
        is_valid == /\ errors = {} /\ hallucinated_keys = {}
                    /\ (mentioned_keys \cap valid_issue_keys) \subseteq valid_keys_for_response
    IN  [valid |-> is_valid,
         original_response |-> response,
         validated_response |-> IF is_valid THEN response ELSE <<None>>,
         errors |-> errors,
         warnings |-> {Msg("Issue mentioned but not in retrieved results", k, "", "") :
                          k \in (mentioned_keys \cap valid_issue_keys)
                                    \ valid_keys_for_response},
         hallucinated_keys |-> hallucinated_keys,
         hallucinated_values |->
             [counts |-> count_validation.invalid_counts,
              statuses |-> status_validation.invalid_statuses,
              priorities |-> priority_validation.invalid_priorities,
              assignees |-> assignee_validation.invalid_assignees]]

\* The ValidationResult that validate builds from the identifiers the text
\* mentions and the four claim validations.  errors and warnings are lists in
\* the source; only their emptiness and their members are read, so they are
\* sets here.
ValidationResult(response, valid_keys_for_response, mentioned_keys, count_validation, status_validation, priority_validation, assignee_validation) ==
    LET hallucinated_keys == {k \in mentioned_keys : k \notin valid_issue_keys}
        errors == {Msg("Hallucinated issue key", k, "", "") : k \in hallucinated_keys}
                    \cup count_validation.errors \cup status_validation.errors
                    \cup priority_validation.errors \cup assignee_validation.errors
        is_valid == errors = {} /\ hallucinated_keys = {}
    IN  [valid |-> is_valid,
         original_response |-> response,
         validated_response |-> IF is_valid THEN response ELSE <<None>>,
         errors |-> errors,
         warnings |-> {Msg("Issue mentioned but not in retrieved results", k, "", "") :
                          k \in (mentioned_keys \cap valid_issue_keys)
                                    \ valid_keys_for_response},
         hallucinated_keys |-> hallucinated_keys,
         hallucinated_values |->
             [counts |-> count_validation.invalid_counts,
              statuses |-> status_validation.invalid_statuses,
              priorities |-> priority_validation.invalid_priorities,
              assignees |-> assignee_validation.invalid_assignees]]

\* ResponseValidator.validate.
validate(response, retrieved_issues) ==
    ValidationResult(response,
                     RetrievedKeys(retrieved_issues),
                     ExtractIssueKeys(response),
                     ValidateCounts(response, retrieved_issues),
                     ValidateStatusClaims(response, retrieved_issues),
                     ValidatePriorityClaims(response, retrieved_issues),
                     ValidateAssigneeClaims(response, retrieved_issues))

KeysOf(list) == [i \in DOMAIN list |-> list[i].key]

\* One line of the 'list' rendering: f"- {key}: {summary} [{status}]".
ListLine(issue) ==
    <<"-", issue.key, ":">> \o Tokens(issue.summary) \o <<"[", issue.status, "]">>

\* The lines of one record in the 'detail' rendering.
DetailLines(issue) ==
    << <<"**", issue.key, "**", ":">> \o Tokens(issue.summary),
       <<"Status:", issue.status, "|", "Priority:", issue.priority>>,
       IF issue.assignee # None
       THEN <<"Assignee:">> \o Tokens(issue.assignee)
       ELSE <<"Assignee:", "Unassigned">> >>
    \o (IF GetList(issue.labels) # <<>>
        THEN << <<"Labels:">> \o
                JoinWith([i \in DOMAIN issue.labels |-> <<issue.labels[i]>>], <<",">>) >>
        ELSE <<>>)
    \o << <<>> >>

\* ResponseValidator.create_grounded_response.
create_grounded_response(list, query_type, include_details) ==
    IF list = <<>>
    THEN [text |-> <<"No", "issues", "found", "matching", "your", "query", ".">>,
          source_issues |-> <<>>, citations |-> <<>>, confidence |-> "1.0"]
    ELSE
    LET n == NumTok(Len(list))
        keys == KeysOf(list)
        text ==
            CASE query_type = "count" ->
                   <<"Found", n, "issue", "(s)", "matching", "your", "query", ".">>
              [] query_type = "list" ->
                   JoinWith(<< <<"Found", n, "issue", "(s):">> >>
                            \o [i \in DOMAIN list |-> ListLine(list[i])], <<NL>>)
              [] query_type = "detail" /\ include_details ->
                   JoinWith(Concat([i \in DOMAIN list |-> DetailLines(list[i])]), <<NL>>)
              [] OTHER ->
                   <<"Issues", ":">> \o
                   JoinWith([i \in DOMAIN keys |-> <<keys[i]>>], <<",">>)
    IN  [text |-> text,
         source_issues |-> list,
         citations |-> IF query_type = "count" THEN <<keys>> ELSE keys,
         confidence |-> "1.0"]

\* The presentation kinds a caller may ask for; "summary" stands for any kind
\* other than the three the renderer names.
QueryTypes == {"count", "list", "detail", "summary"}

\* --------------------------------------------------- the permission filter

\* A denial reason: the reason code and what the source formats after it (the
\* project code, or the blocked labels).
Reason(code, detail) == [code |-> code, detail |-> detail]

Allowed == Reason("allowed", {})

\* A variant without the project check.
DecisionNoProjectCheck(issue, user_perms) ==
    LET issue_components == Range(GetList(issue.components))
        issue_labels == Range(GetList(issue.labels))
        restricted_labels == user_perms.restricted_labels
    IN  IF /\ ~user_perms.can_view_all_issues
           /\ issue_components \cap user_perms.viewable_components = {}
        THEN Reason("no_component_access", {})
        ELSE IF restricted_labels = {"*"}
        THEN (IF issue_labels # {} THEN Reason("all_labels_restricted", {}) ELSE Allowed)
        ELSE IF issue_labels \cap restricted_labels # {}
        THEN Reason("restricted_labels", issue_labels \cap restricted_labels)
        ELSE Allowed

\* A variant that makes the component check before the project check.
DecisionComponentsFirst(issue, user_perms) ==
    LET project == ProjectOf(issue.key)
        issue_components == Range(GetList(issue.components))
        issue_labels == Range(GetList(issue.labels))
        restricted_labels == user_perms.restricted_labels
    IN  IF /\ ~user_perms.can_view_all_issues
           /\ issue_components \cap user_perms.viewable_components = {}
        THEN Reason("no_component_access", {})
        ELSE IF project \notin user_perms.projects
        THEN Reason("no_project_access", {project})
        ELSE IF restricted_labels = {"*"}
        THEN (IF issue_labels # {} THEN Reason("all_labels_restricted", {}) ELSE Allowed)
        ELSE IF issue_labels \cap restricted_labels # {}
        THEN Reason("restricted_labels", issue_labels \cap restricted_labels)
        ELSE Allowed

\* The three checks of the loop body of filter_issues, in the order the loop
\* makes them; the first that fails gives the reason and ends the iteration.
Decision(issue, user_perms) ==
    LET project == ProjectOf(issue.key)
        issue_components == Range(GetList(issue.components))
        issue_labels == Range(GetList(issue.labels))
        restricted_labels == user_perms.restricted_labels
    IN  IF project \notin user_perms.projects
        THEN Reason("no_project_access", {project})
        ELSE IF /\ ~user_perms.can_view_all_issues
                /\ issue_components \cap user_perms.viewable_components = {}
        THEN Reason("no_component_access", {})
        ELSE IF restricted_labels = {"*"}
        THEN (IF issue_labels # {} THEN Reason("all_labels_restricted", {}) ELSE Allowed)
        ELSE IF issue_labels \cap restricted_labels # {}
        THEN Reason("restricted_labels", issue_labels \cap restricted_labels)
        ELSE Allowed

\* A variant that flips the redaction mark instead of setting it.
FilteredCopyFlipsMark(issue, user_perms) ==
    IF ~user_perms.can_view_comments
    THEN [issue EXCEPT !.comments = <<>>, !.redacted = ~issue.redacted]
    ELSE issue
\* filtered_issue = issue.copy(), with the comments stripped when the user
\* may not view them.
FilteredCopy(issue, user_perms) ==
    IF ~user_perms.can_view_comments
    THEN [issue EXCEPT !.comments = <<>>, !.redacted = TRUE]
    ELSE issue

\* A variant that strips the comments of the allowed records in place.
InputAfterFilterInPlace(list, user_id) ==
    IF user_id \notin DOMAIN permissions THEN list
    ELSE [i \in DOMAIN list |->
            IF Decision(list[i], permissions[user_id]) = Allowed
            THEN FilteredCopy(list[i], permissions[user_id])
            ELSE list[i]]

\* The records of the input list when filter_issues returns: the loop reads
\* them and assigns only to the keys of filtered_issue, the copy.
InputAfterFilter(list, user_id) == list

\* filter_issues without the refusal of unknown users: a user the table does
\* not hold sees every record.
filter_issuesFailOpen(list, user_id) ==
    IF user_id \notin DOMAIN permissions
    THEN [allowed_issues |-> list,
          filtered_count |-> 0,
          total_before_filter |-> Len(list),
          user_id |-> user_id,
          filter_reasons |-> [k \in {} |-> Allowed]]
    ELSE
    LET user_perms == permissions[user_id]
        passed == SelectSeq(list, LAMBDA issue : Decision(issue, user_perms) = Allowed)
        allowed_issues == [i \in DOMAIN passed |-> FilteredCopy(passed[i], user_perms)]
        denied == {list[i].key : i \in {j \in DOMAIN list :
                                          Decision(list[j], user_perms) # Allowed}}
        lastDenied(k) ==
            LET at == {i \in DOMAIN list :
                          list[i].key = k /\ Decision(list[i], user_perms) # Allowed}
            IN  list[CHOOSE i \in at : \A j \in at : j <= i]
    IN  [allowed_issues |-> allowed_issues,
         filtered_count |-> Len(list) - Len(allowed_issues),
         total_before_filter |-> Len(list),
         user_id |-> user_id,
         filter_reasons |-> [k \in denied |-> Decision(lastDenied(k), user_perms)]]

\* PermissionFilter.filter_issues.
filter_issues(list, user_id) ==
    IF user_id \notin DOMAIN permissions
    THEN [allowed_issues |-> <<>>,
          filtered_count |-> Len(list),
          total_before_filter |-> Len(list),
          user_id |-> user_id,
          filter_reasons |-> [k \in RetrievedKeys(list) |-> Reason("unknown_user", {})]]
    ELSE
    LET user_perms == permissions[user_id]
        passed == SelectSeq(list, LAMBDA issue : Decision(issue, user_perms) = Allowed)
        allowed_issues == [i \in DOMAIN passed |-> FilteredCopy(passed[i], user_perms)]
        denied == {list[i].key : i \in {j \in DOMAIN list :
                                          Decision(list[j], user_perms) # Allowed}}
        lastDenied(k) ==
            LET at == {i \in DOMAIN list :
                          list[i].key = k /\ Decision(list[i], user_perms) # Allowed}
            IN  list[CHOOSE i \in at : \A j \in at : j <= i]
    IN  [allowed_issues |-> allowed_issues,
         filtered_count |-> Len(list) - Len(allowed_issues),
         total_before_filter |-> Len(list),
         user_id |-> user_id,
         filter_reasons |-> [k \in denied |-> Decision(lastDenied(k), user_perms)]]

\* ----------------------------------------------------------- the JQL executor

\* A structured query is a sequence of tokens separated by white space; a
\* quoted value ('In Progress') and a parenthesised list are one token each.

\* Tokens that hold a character outside \w, with the \w+ each starts with.
NonWordTokens ==
    {"=", "!=", ">", "<", ">=", "<=", "~",
     "'In Progress'", "'in progress'", "'FIN'", "'Sarah Chen'", "'Done'", "'x'",
     "(security, compliance)", "(security)", "(FIN)", "(fin)", "(High, critical)",
     "(Done)", "(done)", "(In Progress)",
     "-7d", "-1w", "-2h", "-1m", "2024-01-10", "2024-01-10T00:00:00Z",
     "2024-01-12T10:00:00Z", "2024-01-05T10:00:00+00:00",
     "FIN-101", "FIN-102", "FIN-10", "SEC-201", "SEC-202"}

LeadingWord(tok) ==
    CASE tok \in {"2024-01-10", "2024-01-10T00:00:00Z", "2024-01-12T10:00:00Z",
                  "2024-01-05T10:00:00+00:00"} -> "2024"
      [] tok \in NonWordTokens /\ tok \in KeyPatternTokens -> ProjectOf(tok)
      [] tok \in NonWordTokens -> ""
      [] OTHER -> tok

\* \w+ followed by white space: the whole token is a word.
IsWord(tok) == tok # "" /\ tok \notin NonWordTokens

\* A token that opens with a quote, and the text between its quotes.
QuotedTokens ==
    {"'Blocked'", "'Bug'", "'Critical'", "'Done'", "'FIN'", "'In Progress'",
     "'In Review'", "'Low'", "'SEC'", "'Sarah Chen'", "'Task'", "'To Do'",
     "'in progress'", "'security'", "'x'"}

Unquote(tok) ==
    CASE tok = "'Blocked'" -> "Blocked"
      [] tok = "'Bug'" -> "Bug"
      [] tok = "'Critical'" -> "Critical"
      [] tok = "'Done'" -> "Done"
      [] tok = "'FIN'" -> "FIN"
      [] tok = "'In Progress'" -> "In Progress"
      [] tok = "'In Review'" -> "In Review"
      [] tok = "'Low'" -> "Low"
      [] tok = "'SEC'" -> "SEC"
      [] tok = "'Sarah Chen'" -> "Sarah Chen"
      [] tok = "'Task'" -> "Task"
      [] tok = "'To Do'" -> "To Do"
      [] tok = "'in progress'" -> "in progress"
      [] tok = "'security'" -> "security"
      [] tok = "'x'" -> "x"
      [] OTHER -> tok

\* The part of a quoted token's text before its first blank.
UnquoteHead(tok) ==
    CASE tok = "'In Progress'" -> "In"
      [] tok = "'In Review'" -> "In"
      [] tok = "'Sarah Chen'" -> "Sarah"
      [] tok = "'To Do'" -> "To"
      [] tok = "'in progress'" -> "in"
      [] OTHER -> Unquote(tok)

\* \(([^)]+)\): a list token, and [v.strip().strip('"\'') for v in
\* group(3).split(',')].
ListTokens ==
    {"(security, compliance)", "(security)", "(FIN)", "(fin)", "(High, critical)",
     "(Done)", "(done)", "(In Progress)"}

ListValues(tok) ==
    CASE tok = "(security, compliance)" -> <<"security", "compliance">>
      [] tok = "(security)" -> <<"security">>
      [] tok = "(FIN)" -> <<"FIN">>
      [] tok = "(fin)" -> <<"fin">>
      [] tok = "(High, critical)" -> <<"High", "critical">>
      [] tok = "(Done)" -> <<"Done">>
      [] tok = "(done)" -> <<"done">>
      [] tok = "(In Progress)" -> <<"In Progress">>
      [] OTHER -> <<>>

\* ' '.join(tokens) as one string.
RECURSIVE JoinStr(_)
JoinStr(toks) ==
    IF toks = <<>> THEN ""
    ELSE IF Len(toks) = 1 THEN toks[1]
    ELSE toks[1] \o " " \o JoinStr(Tail(toks))

\* The tokens of a sequence before its first quoted token.
RECURSIVE BareRun(_)
BareRun(toks) ==
    IF toks = <<>> \/ Head(toks) \in QuotedTokens THEN <<>>
    ELSE <<Head(toks)>> \o BareRun(Tail(toks))

\* A parsed condition; `lvalue` is value.lower(), `head` is the part of value
\* before its first blank (what a pattern anchored at the start of the value
\* reads), and `error` is <<>> or the clause that could not be parsed.
Condition(field, operator, values, value, lvalue, head) ==
    [error |-> <<>>, field |-> field, operator |-> operator,
     values |-> values, value |-> value, lvalue |-> lvalue, head |-> head]

ClauseError(clause) ==
    [error |-> <<"Unable to parse JQL clause", JoinStr(clause)>>, field |-> "",
     operator |-> "", values |-> <<>>, value |-> "", lvalue |-> "", head |-> ""]

ComparisonOperators == {"!=", ">=", "<=", "=", ">", "<"}

\* ["\']?([^"\']+)["\']? read at the tokens after the operator, then strip():
\* a quoted token gives the text between its quotes; otherwise the value runs
\* on to the next quote or to the end of the clause.  <<>> when nothing is
\* there to read, else <<value, value.lower(), head>>.
ClauseValue(rest) ==
    IF rest = <<>> THEN <<>>
    ELSE IF Head(rest) \in QuotedTokens
    THEN <<Unquote(Head(rest)), Lower(Unquote(Head(rest))), UnquoteHead(Head(rest))>>
    ELSE <<JoinStr(BareRun(rest)), JoinStr(LowerSeq(BareRun(rest))), Head(rest)>>

\* _parse_clause: the five forms are tried in the source's order, each with
\* re.match (anchored at the start of the clause, nothing required after it).
ParseClause(c) ==
    LET w(k) == Lower(TokAt(c, k))
        field == Lower(c[1])
        rest == SubSeq(c, 3, Len(c))
    IN  IF ~IsWord(c[1]) THEN ClauseError(c)
        ELSE IF w(2) = "in" /\ TokAt(c, 3) \in ListTokens
        THEN Condition(field, "IN", ListValues(c[3]), "", "", "")
        ELSE IF w(2) = "not" /\ w(3) = "in" /\ TokAt(c, 4) \in ListTokens
        THEN Condition(field, "NOT IN", ListValues(c[4]), "", "", "")
        ELSE IF w(2) = "is" /\ w(3) = "null"
        THEN Condition(field, "IS NULL", <<>>, "", "", "")
        ELSE IF w(2) = "is" /\ w(3) = "not" /\ w(4) = "null"
        THEN Condition(field, "IS NOT NULL", <<>>, "", "", "")
        ELSE IF w(2) = "is" /\ w(3) = "empty"
        THEN Condition(field, "IS EMPTY", <<>>, "", "", "")
        ELSE IF w(2) = "is" /\ w(3) = "not" /\ w(4) = "empty"
        THEN Condition(field, "IS NOT EMPTY", <<>>, "", "", "")
        ELSE IF TokAt(c, 2) = "~" /\ ClauseValue(rest) # <<>>
        THEN Condition(field, "~", <<>>, ClauseValue(rest)[1], ClauseValue(rest)[2],
                       ClauseValue(rest)[3])
        ELSE IF TokAt(c, 2) \in ComparisonOperators /\ ClauseValue(rest) # <<>>
        THEN Condition(field, c[2], <<>>, ClauseValue(rest)[1], ClauseValue(rest)[2],
                       ClauseValue(rest)[3])
        ELSE ClauseError(c)

\* re.search(r'\s+ORDER\s+BY\s+(\w+)\s*(ASC|DESC)?', jql, re.IGNORECASE): the
\* places where ORDER stands after some other token and is followed by BY
\* and by a token that starts with a word.
OrderMatches(t) ==
    {i \in DOMAIN t : /\ i >= 2
                      /\ Lower(t[i]) = "order"
                      /\ Lower(TokAt(t, i + 1)) = "by"
                      /\ LeadingWord(TokAt(t, i + 2)) # ""}

\* (ASC|DESC)? read after the field and optional white space: the direction
\* the next token starts with; it can be read only when the field is a whole
\* token.
OrderDirection(t, i) ==
    LET d == Lower(TokAt(t, i + 3))
    IN  IF ~IsWord(TokAt(t, i + 2)) THEN "ASC"
        ELSE IF d \in {"asc", "ascending"} THEN Upper("asc")
        ELSE IF d \in {"desc", "descending"} THEN Upper("desc")
        ELSE "ASC"

NoOrder == [field |-> None, direction |-> None]

\* re.split(r'\s+AND\s+', jql, flags=re.IGNORECASE): an AND separates when it
\* has a token on each side and the token before it is not itself a
\* separating AND (the white space between them is already consumed).
RECURSIVE IsSeparator(_, _)
IsSeparator(t, i) ==
    /\ 1 < i /\ i < Len(t)
    /\ Lower(t[i]) = "and"
    /\ ~IsSeparator(t, i - 1)

\* The clauses between the separators, from token i on; cur is the clause
\* being collected.
RECURSIVE SplitFrom(_, _, _)
SplitFrom(t, i, cur) ==
    IF i > Len(t) THEN <<cur>>
    ELSE IF IsSeparator(t, i) THEN <<cur>> \o SplitFrom(t, i + 1, <<>>)
    ELSE SplitFrom(t, i + 1, Append(cur, t[i]))

\* A variant of the loop that drops a clause it cannot parse.
RECURSIVE ParseClausesSkipBad(_, _)
ParseClausesSkipBad(clauses, conditions) ==
    IF clauses = <<>> THEN [error |-> <<>>, conditions |-> conditions]
    ELSE IF Head(clauses) = <<>> THEN ParseClausesSkipBad(Tail(clauses), conditions)
    ELSE LET condition == ParseClause(Head(clauses))
         IN  IF condition.error # <<>>
             THEN ParseClausesSkipBad(Tail(clauses), conditions)
             ELSE ParseClausesSkipBad(Tail(clauses), Append(conditions, condition))

\* The loop of _parse_jql over the clauses: the conditions so far, or the
\* first clause error.
RECURSIVE ParseClauses(_, _)
ParseClauses(clauses, conditions) ==
    IF clauses = <<>> THEN [error |-> <<>>, conditions |-> conditions]
    ELSE IF Head(clauses) = <<>> THEN ParseClauses(Tail(clauses), conditions)
    ELSE LET condition == ParseClause(Head(clauses))
         IN  IF condition.error # <<>>
             THEN [error |-> condition.error, conditions |-> <<>>]
             ELSE ParseClauses(Tail(clauses), Append(conditions, condition))

\* _parse_jql.
ParseJql(jql) ==
    LET found == OrderMatches(jql)
        start == IF found = {} THEN Len(jql) + 1
                 ELSE CHOOSE i \in found : \A j \in found : i <= j
        order_by == IF found = {} THEN NoOrder
                    ELSE [field |-> Lower(LeadingWord(jql[start + 2])),
                          direction |-> OrderDirection(jql, start)]
        body == SubSeq(jql, 1, start - 1)
        parsed == ParseClauses(SplitFrom(body, 1, <<>>), <<>>)
    IN  [error |-> parsed.error, conditions |-> parsed.conditions, order_by |-> order_by]

\* The keys of field_mapping.
MappedFields ==
    {"project", "status", "priority", "type", "issuetype", "assignee", "reporter",
     "labels", "components", "summary", "description", "created", "updated",
     "resolution", "sprint", "key"}

\* isinstance(issue_value, list): the accessors that return a list.
ListFields == {"labels", "components"}

\* field_mapping[field](issue).
FieldValue(issue, field) ==
    CASE field = "project" -> ProjectOf(issue.key)
      [] field = "status" -> issue.status
      [] field = "priority" -> issue.priority
      [] field \in {"type", "issuetype"} -> issue.type
      [] field = "assignee" -> issue.assignee
      [] field = "reporter" -> issue.reporter
      [] field = "labels" -> GetList(issue.labels)
      [] field = "components" -> GetList(issue.components)
      [] field = "summary" -> issue.summary
      [] field = "description" ->
             IF issue.description = Missing THEN "" ELSE issue.description
      [] field = "created" -> issue.created
      [] field = "updated" -> issue.updated
      [] field = "resolution" ->
             IF issue.resolution = Missing THEN None ELSE issue.resolution
      [] field = "sprint" -> IF issue.sprint = Missing THEN None ELSE issue.sprint
      [] field = "key" -> issue.key

\* str(value) of a scalar field value.
Str(v) == IF v = None THEN "None" ELSE v

\* `needle in hay.lower()` for the lower-case needles the queries use and
\* the strings the records hold: the pairs for which it is true.
SubstringPairs ==
    {<<"audit", "Audit firewall rules">>, <<"audit", "vendor audit">>,
     <<"done", "Done">>, <<"fin", "FIN">>, <<"fin", "FIN-10">>,
     <<"fin", "FIN-101">>, <<"fin", "FIN-102">>, <<"fin-10", "FIN-10">>,
     <<"fin-10", "FIN-101">>, <<"fin-10", "FIN-102">>,
     <<"front", "Frontend">>, <<"high", "High">>,
     <<"in progress", "In Progress">>, <<"login", "Fix critical login bug">>,
     <<"login", "oauth login">>, <<"sarah", "Sarah Chen">>, <<"sec", "SEC">>,
     <<"sec", "SEC-201">>, <<"sec", "SEC-202">>, <<"sec", "Security">>,
     <<"sec", "security">>}

Contains(needle, hay) == <<needle, hay>> \in SubstringPairs

\* A datetime: hours since 2024-01-01T00:00 and whether it carries a UTC
\* offset; ok is FALSE where the source has None or a ValueError.
DateTime(t, aware) == [ok |-> TRUE, t |-> t, aware |-> aware]
NoDate == [ok |-> FALSE, t |-> 0, aware |-> FALSE]

\* datetime.fromisoformat(value.replace('Z', '+00:00')).
FromIsoFormat(value) ==
    CASE value = "2024-01-01T10:00:00Z" -> DateTime(10, TRUE)
      [] value = "2024-01-02T10:00:00Z" -> DateTime(34, TRUE)
      [] value \in {"2024-01-05T10:00:00Z", "2024-01-05T10:00:00+00:00"} ->
             DateTime(106, TRUE)
      [] value = "2024-01-10" -> DateTime(216, FALSE)
      [] value = "2024-01-10T00:00:00Z" -> DateTime(216, TRUE)
      [] value = "2024-01-10T10:00:00Z" -> DateTime(226, TRUE)
      [] value = "2024-01-12T10:00:00Z" -> DateTime(274, TRUE)
      [] value = "2024-01-15T10:00:00Z" -> DateTime(346, TRUE)
      [] value = "2024-01-18T10:00:00Z" -> DateTime(418, TRUE)
      [] value = "2024-01-20T10:00:00Z" -> DateTime(466, TRUE)
      [] OTHER -> NoDate

\* datetime.now(), in hours since 2024-01-01T00:00 (2024-01-21T00:00, local
\* time, no offset).
Now == 480

\* re.match(r'-(\d+)([dwmh])', value), read at the head of the value:
\* <<amount, unit>>, or <<>>.
RelativeMatch(head) ==
    CASE head = "-7d" -> <<7, "d">>
      [] head = "-1w" -> <<1, "w">>
      [] head = "-2h" -> <<2, "h">>
      [] head = "-1m" -> <<1, "m">>
      [] OTHER -> <<>>

\* datetime.strptime(value, fmt) for the three formats tried last.
StrpTime(value) ==
    CASE value = "2024/01/10" -> DateTime(216, FALSE)
      [] value = "10/01/2024" -> DateTime(216, FALSE)
      [] OTHER -> NoDate

\* _parse_date_value, for the value of a condition.
ParseDateValue(condition) ==
    LET value == condition.value
        relative_match == RelativeMatch(condition.head)
        amount == relative_match[1]
        unit == relative_match[2]
    IN  IF relative_match # <<>> /\ unit = "d" THEN DateTime(Now - 24 * amount, FALSE)
        ELSE IF relative_match # <<>> /\ unit = "w" THEN DateTime(Now - 168 * amount, FALSE)
        ELSE IF relative_match # <<>> /\ unit = "h" THEN DateTime(Now - amount, FALSE)
        ELSE IF FromIsoFormat(value).ok THEN FromIsoFormat(value)
        ELSE StrpTime(value)

\* The comparison of two datetimes raises TypeError when one carries an
\* offset and the other does not.
DateCompareRaises(issue, condition) ==
    /\ condition.field \in {"created", "updated"}
    /\ condition.operator \in {">", "<", ">=", "<="}
    /\ ParseDateValue(condition).ok
    /\ FromIsoFormat(FieldValue(issue, condition.field)).aware
           # ParseDateValue(condition).aware

\* A variant for which a condition on an unknown field matches no record.
MatchesConditionStrict(issue, condition) ==
    LET field == condition.field
        operator == condition.operator
        issue_value == FieldValue(issue, field)
        isList == field \in ListFields
    IN  IF field \notin MappedFields THEN FALSE
        ELSE CASE operator = "IS NULL" -> ~isList /\ issue_value = None
          [] operator = "IS NOT NULL" -> isList \/ issue_value # None
          [] operator = "IS EMPTY" ->
                 IF isList THEN issue_value = <<>> ELSE issue_value \in {None, ""}
          [] operator = "IS NOT EMPTY" ->
                 IF isList THEN issue_value # <<>> ELSE issue_value \notin {None, ""}
          [] operator = "IN" ->
                 IF isList THEN Range(issue_value) \cap Range(condition.values) # {}
                 ELSE Str(issue_value) \in Range(condition.values)
          [] operator = "NOT IN" ->
                 IF isList THEN Range(issue_value) \cap Range(condition.values) = {}
                 ELSE Str(issue_value) \notin Range(condition.values)
          [] operator = "~" ->
                 IF isList
                 THEN \E v \in Range(issue_value) : Contains(condition.lvalue, v)
                 ELSE Contains(condition.lvalue, IF issue_value = None THEN "" ELSE issue_value)
          [] operator = "=" ->
                 IF isList THEN condition.value \in Range(issue_value)
                 ELSE Lower(Str(issue_value)) = condition.lvalue
          [] operator = "!=" ->
                 IF isList THEN condition.value \notin Range(issue_value)
                 ELSE Lower(Str(issue_value)) # condition.lvalue
          [] operator \in {">", "<", ">=", "<="} /\ field \in {"created", "updated"} ->
                 LET issue_date == FromIsoFormat(issue_value)
                     compare_date == ParseDateValue(condition)
                 IN  IF ~compare_date.ok THEN TRUE
                     ELSE (CASE operator = ">" -> issue_date.t > compare_date.t
                             [] operator = "<" -> issue_date.t < compare_date.t
                             [] operator = ">=" -> issue_date.t >= compare_date.t
                             [] operator = "<=" -> issue_date.t <= compare_date.t)
          [] OTHER -> TRUE

\* _matches_condition, where it returns.
MatchesCondition(issue, condition) ==
    LET field == condition.field
        operator == condition.operator
        issue_value == FieldValue(issue, field)
        isList == field \in ListFields
    IN  IF field \notin MappedFields THEN TRUE
        ELSE CASE operator = "IS NULL" -> ~isList /\ issue_value = None
          [] operator = "IS NOT NULL" -> isList \/ issue_value # None
          [] operator = "IS EMPTY" ->
                 IF isList THEN issue_value = <<>> ELSE issue_value \in {None, ""}
          [] operator = "IS NOT EMPTY" ->
                 IF isList THEN issue_value # <<>> ELSE issue_value \notin {None, ""}
          [] operator = "IN" ->
                 IF isList THEN Range(issue_value) \cap Range(condition.values) # {}
                 ELSE Str(issue_value) \in Range(condition.values)
          [] operator = "NOT IN" ->
                 IF isList THEN Range(issue_value) \cap Range(condition.values) = {}
                 ELSE Str(issue_value) \notin Range(condition.values)
          [] operator = "~" ->
                 IF isList
                 THEN \E v \in Range(issue_value) : Contains(condition.lvalue, v)
                 ELSE Contains(condition.lvalue, IF issue_value = None THEN "" ELSE issue_value)
          [] operator = "=" ->
                 IF isList THEN condition.value \in Range(issue_value)
                 ELSE Lower(Str(issue_value)) = condition.lvalue
          [] operator = "!=" ->
                 IF isList THEN condition.value \notin Range(issue_value)
                 ELSE Lower(Str(issue_value)) # condition.lvalue
          [] operator \in {">", "<", ">=", "<="} /\ field \in {"created", "updated"} ->
                 LET issue_date == FromIsoFormat(issue_value)
                     compare_date == ParseDateValue(condition)
                 IN  IF ~compare_date.ok THEN TRUE
                     ELSE (CASE operator = ">" -> issue_date.t > compare_date.t
                             [] operator = "<" -> issue_date.t < compare_date.t
                             [] operator = ">=" -> issue_date.t >= compare_date.t
                             [] operator = "<=" -> issue_date.t <= compare_date.t)
          [] OTHER -> TRUE

\* A variant that applies the first condition only.
RECURSIVE JqlFilterIssuesFirstOnly(_, _)
JqlFilterIssuesFirstOnly(result, conditions) ==
    IF conditions = <<>> THEN [raised |-> FALSE, issues |-> result]
    ELSE IF \E i \in DOMAIN result : DateCompareRaises(result[i], Head(conditions))
    THEN [raised |-> TRUE, issues |-> <<>>]
    ELSE [raised |-> FALSE,
          issues |-> SelectSeq(result, LAMBDA issue :
                                   MatchesCondition(issue, Head(conditions)))]
\* _filter_issues: one pass over the current result per condition, in the
\* order of the conditions; a comparison that raises ends the whole call.
RECURSIVE JqlFilterIssues(_, _)
JqlFilterIssues(result, conditions) ==
    IF conditions = <<>> THEN [raised |-> FALSE, issues |-> result]
    ELSE IF \E i \in DOMAIN result : DateCompareRaises(result[i], Head(conditions))
    THEN [raised |-> TRUE, issues |-> <<>>]
    ELSE JqlFilterIssues(SelectSeq(result, LAMBDA issue :
                                    MatchesCondition(issue, Head(conditions))),
                      Tail(conditions))

\* The strings that serve as sort keys, in Python's string order.
SortedStrings ==
    <<"2024-01-01T10:00:00Z", "2024-01-02T10:00:00Z", "2024-01-05T10:00:00Z",
     "2024-01-10T10:00:00Z", "2024-01-12T10:00:00Z", "2024-01-15T10:00:00Z",
     "2024-01-18T10:00:00Z", "2024-01-20T10:00:00Z", "Blocked", "Done",
     "FIN-10", "FIN-101", "FIN-102", "In Progress", "In Review", "SEC-201",
     "SEC-202", "To Do">>

StrRank(s) == CHOOSE i \in DOMAIN SortedStrings : SortedStrings[i] = s

\* The rank priority_order.get(priority, 99) falls back to.
UnknownPriorityRank == 99

\* get_sort_key of _apply_ordering, as a number that orders as the key does.
SortKey(issue, field) ==
    CASE field \in {"created", "updated", "key", "status"} ->
             StrRank(FieldValue(issue, field))
      [] field = "priority" ->
             (CASE issue.priority = "Critical" -> 0
                [] issue.priority = "High" -> 1
                [] issue.priority = "Medium" -> 2
                [] issue.priority = "Low" -> 3
                [] OTHER -> UnknownPriorityRank)
      [] OTHER -> 0

\* sorted(): each record goes after the records already placed that do not
\* sort after it, so records with equal keys keep their order (also with
\* reverse=True).
RECURSIVE InsertSorted(_, _, _, _)
InsertSorted(sorted, issue, field, reverse) ==
    IF sorted = <<>> THEN <<issue>>
    ELSE LET last == sorted[Len(sorted)]
             after == IF reverse
                      THEN SortKey(last, field) >= SortKey(issue, field)
                      ELSE SortKey(last, field) <= SortKey(issue, field)
         IN  IF after THEN Append(sorted, issue)
             ELSE Append(InsertSorted(SubSeq(sorted, 1, Len(sorted) - 1),
                                      issue, field, reverse), last)

RECURSIVE SortFrom(_, _, _, _)
SortFrom(list, sorted, field, reverse) ==
    IF list = <<>> THEN sorted
    ELSE SortFrom(Tail(list), InsertSorted(sorted, Head(list), field, reverse),
                  field, reverse)

\* A variant that sorts ascending whatever the direction.
ApplyOrderingAscending(list, order_by) ==
    SortFrom(list, <<>>, order_by.field, FALSE)

\* _apply_ordering.
ApplyOrdering(list, order_by) ==
    SortFrom(list, <<>>, order_by.field, order_by.direction = "DESC")

\* JQLResult.
JQLResult(success, list, jql, error) ==
    [success |-> success, issues |-> list, total_count |-> Len(list),
     jql_query |-> jql, error |-> error]

\* A variant that orders by key when the query gives no order.
executeOrdersByDefault(jql) ==
    LET parsed == ParseJql(jql)
        filtered == JqlFilterIssues(issues, parsed.conditions)
        order_by == IF parsed.order_by # NoOrder THEN parsed.order_by
                    ELSE [field |-> "key", direction |-> "ASC"]
    IN  IF parsed.error # <<>> THEN JQLResult(FALSE, <<>>, jql, parsed.error)
        ELSE IF filtered.raised
        THEN JQLResult(FALSE, <<>>, jql,
                       <<"JQL execution error",
                         "can't compare offset-naive and offset-aware datetimes">>)
        ELSE JQLResult(TRUE, ApplyOrdering(filtered.issues, order_by), jql, <<>>)
\* JQLExecutor.execute.
execute(jql) ==
    LET Filtered(parsed, filtered) ==
            IF filtered.raised
            THEN JQLResult(FALSE, <<>>, jql,
                           <<"JQL execution error",
                             "can't compare offset-naive and offset-aware datetimes">>)
            ELSE IF parsed.order_by # NoOrder
            THEN JQLResult(TRUE, ApplyOrdering(filtered.issues, parsed.order_by), jql, <<>>)
            ELSE JQLResult(TRUE, filtered.issues, jql, <<>>)
        Parsed(parsed) ==
            IF parsed.error # <<>> THEN JQLResult(FALSE, <<>>, jql, parsed.error)
            ELSE Filtered(parsed, JqlFilterIssues(issues, parsed.conditions))
    IN  Parsed(ParseJql(jql))

\* ------------------------------------------------------ the query classifier

\* A natural-language query is a sequence of words separated by single
\* blanks.  The character-level functions the classifier applies (len(), `in`,
\* the regular expressions, re.sub) are tables over the words of the model's
\* queries and over the words these functions derive from them.

\* len(s) for the strings shorter than three characters.
CharCount ==
    [s \in {"", "10", "?", "F", "S", "d", "do", "f", "hi", "in", "ne", "s",
            "to", "un"} |->
        CASE s \in {""} -> 0
          [] s \in {"?", "F", "S", "d", "f", "s"} -> 1
          [] s \in {"10", "do", "hi", "in", "ne", "to", "un"} -> 2]

\* len(s); lengths above 2 are not told apart.
StrLen(s) == IF s \in DOMAIN CharCount THEN CharCount[s] ELSE 3

\* What the patterns read in a string that is not one plain lower-case-able
\* word: runs is re.findall(r'[a-z0-9]+', s.lower()), upper is
\* re.findall(r'\b([A-Z]{2,10})\b', s), name is the match of [A-Za-z]{2,} at the
\* start of s, word the match of \w+ at the start, rest what follows word, and
\* tail tells whether s ends with a word character.
WordShape ==
    [s \in {"", "-101", "?", "Alex Rivera", "Audit firewall rules", "F",
            "FIN", "FIN-10", "FIN-101", "FIN-102", "Fix critical login bug",
            "Implement OAuth authentication flow", "In Progress",
            "In Review", "Old ledger export", "Review vendor access", "S",
            "SEC", "SEC-201", "SEC-202", "Sarah Chen", "To Do", "blocked?",
            "d", "f", "fin-101", "internal note", "looks good",
            "oauth login", "s", "there?", "vendor audit"} |->
        CASE s = "" ->
               [runs |-> <<>>, upper |-> <<>>, name |-> "", word |-> "",
                rest |-> "", tail |-> FALSE]
          [] s = "-101" ->
               [runs |-> <<"101">>, upper |-> <<>>, name |-> "", word |-> "",
                rest |-> "-101", tail |-> TRUE]
          [] s = "?" ->
               [runs |-> <<>>, upper |-> <<>>, name |-> "", word |-> "",
                rest |-> "?", tail |-> FALSE]
          [] s = "Alex Rivera" ->
               [runs |-> <<"alex", "rivera">>, upper |-> <<>>, name |-> "Alex", word |-> "Alex",
                rest |-> " Rivera", tail |-> TRUE]
          [] s = "Audit firewall rules" ->
               [runs |-> <<"audit", "firewall", "rules">>, upper |-> <<>>, name |-> "Audit", word |-> "Audit",
                rest |-> " firewall rules", tail |-> TRUE]
          [] s = "F" ->
               [runs |-> <<"f">>, upper |-> <<>>, name |-> "", word |-> "F",
                rest |-> "", tail |-> TRUE]
          [] s = "FIN" ->
               [runs |-> <<"fin">>, upper |-> <<"FIN">>, name |-> "FIN", word |-> "FIN",
                rest |-> "", tail |-> TRUE]
          [] s = "FIN-10" ->
               [runs |-> <<"fin", "10">>, upper |-> <<"FIN">>, name |-> "FIN", word |-> "FIN",
                rest |-> "-10", tail |-> TRUE]
          [] s = "FIN-101" ->
               [runs |-> <<"fin", "101">>, upper |-> <<"FIN">>, name |-> "FIN", word |-> "FIN",
                rest |-> "-101", tail |-> TRUE]
          [] s = "FIN-102" ->
               [runs |-> <<"fin", "102">>, upper |-> <<"FIN">>, name |-> "FIN", word |-> "FIN",
                rest |-> "-102", tail |-> TRUE]
          [] s = "Fix critical login bug" ->
               [runs |-> <<"fix", "critical", "login", "bug">>, upper |-> <<>>, name |-> "Fix", word |-> "Fix",
                rest |-> " critical login bug", tail |-> TRUE]
          [] s = "Implement OAuth authentication flow" ->
               [runs |-> <<"implement", "oauth", "authentication", "flow">>, upper |-> <<>>, name |-> "Implement", word |-> "Implement",
                rest |-> " OAuth authentication flow", tail |-> TRUE]
          [] s = "In Progress" ->
               [runs |-> <<"in", "progress">>, upper |-> <<>>, name |-> "In", word |-> "In",
                rest |-> " Progress", tail |-> TRUE]
          [] s = "In Review" ->
               [runs |-> <<"in", "review">>, upper |-> <<>>, name |-> "In", word |-> "In",
                rest |-> " Review", tail |-> TRUE]
          [] s = "Old ledger export" ->
               [runs |-> <<"old", "ledger", "export">>, upper |-> <<>>, name |-> "Old", word |-> "Old",
                rest |-> " ledger export", tail |-> TRUE]
          [] s = "Review vendor access" ->
               [runs |-> <<"review", "vendor", "access">>, upper |-> <<>>, name |-> "Review", word |-> "Review",
                rest |-> " vendor access", tail |-> TRUE]
          [] s = "S" ->
               [runs |-> <<"s">>, upper |-> <<>>, name |-> "", word |-> "S",
                rest |-> "", tail |-> TRUE]
          [] s = "SEC" ->
               [runs |-> <<"sec">>, upper |-> <<"SEC">>, name |-> "SEC", word |-> "SEC",
                rest |-> "", tail |-> TRUE]
          [] s = "SEC-201" ->
               [runs |-> <<"sec", "201">>, upper |-> <<"SEC">>, name |-> "SEC", word |-> "SEC",
                rest |-> "-201", tail |-> TRUE]
          [] s = "SEC-202" ->
               [runs |-> <<"sec", "202">>, upper |-> <<"SEC">>, name |-> "SEC", word |-> "SEC",
                rest |-> "-202", tail |-> TRUE]
          [] s = "Sarah Chen" ->
               [runs |-> <<"sarah", "chen">>, upper |-> <<>>, name |-> "Sarah", word |-> "Sarah",
                rest |-> " Chen", tail |-> TRUE]
          [] s = "To Do" ->
               [runs |-> <<"to", "do">>, upper |-> <<>>, name |-> "To", word |-> "To",
                rest |-> " Do", tail |-> TRUE]
          [] s = "blocked?" ->
               [runs |-> <<"blocked">>, upper |-> <<>>, name |-> "blocked", word |-> "blocked",
                rest |-> "?", tail |-> FALSE]
          [] s = "d" ->
               [runs |-> <<"d">>, upper |-> <<>>, name |-> "", word |-> "d",
                rest |-> "", tail |-> TRUE]
          [] s = "f" ->
               [runs |-> <<"f">>, upper |-> <<>>, name |-> "", word |-> "f",
                rest |-> "", tail |-> TRUE]
          [] s = "fin-101" ->
               [runs |-> <<"fin", "101">>, upper |-> <<>>, name |-> "fin", word |-> "fin",
                rest |-> "-101", tail |-> TRUE]
          [] s = "internal note" ->
               [runs |-> <<"internal", "note">>, upper |-> <<>>, name |-> "internal", word |-> "internal",
                rest |-> " note", tail |-> TRUE]
          [] s = "looks good" ->
               [runs |-> <<"looks", "good">>, upper |-> <<>>, name |-> "looks", word |-> "looks",
                rest |-> " good", tail |-> TRUE]
          [] s = "oauth login" ->
               [runs |-> <<"oauth", "login">>, upper |-> <<>>, name |-> "oauth", word |-> "oauth",
                rest |-> " login", tail |-> TRUE]
          [] s = "s" ->
               [runs |-> <<"s">>, upper |-> <<>>, name |-> "", word |-> "s",
                rest |-> "", tail |-> TRUE]
          [] s = "there?" ->
               [runs |-> <<"there">>, upper |-> <<>>, name |-> "there", word |-> "there",
                rest |-> "?", tail |-> FALSE]
          [] s = "vendor audit" ->
               [runs |-> <<"vendor", "audit">>, upper |-> <<>>, name |-> "vendor", word |-> "vendor",
                rest |-> " audit", tail |-> TRUE]]

Shape(s) ==
    IF s \in DOMAIN WordShape THEN WordShape[s]
    ELSE [runs |-> <<Lower(s)>>, upper |-> <<>>, name |-> s, word |-> s,
          rest |-> "", tail |-> TRUE]

\* The places where a lower-case needle is found in a word, letter case
\* ignored: "sub" anywhere in the word, "pre" at its start, "suf" at its end.
\* The value is what is left of the word when the needle is taken out
\* (re.sub(re.escape(needle), '', word, flags=re.IGNORECASE) for "sub").
Cuts ==
    [c \in {<<"suf", "?", "?">>, <<"pre", "chen", "Chen">>,
            <<"sub", "fin", "FIN">>, <<"suf", "in", "FIN">>,
            <<"sub", "fin", "FIN-101">>, <<"suf", "how", "How">>,
            <<"sub", "sec", "SEC">>, <<"suf", "sarah", "Sarah">>,
            <<"suf", "how", "Show">>, <<"suf", "assigned", "assigned">>,
            <<"sub", "blocked", "blocked">>,
            <<"sub", "blocked", "blocked?">>, <<"suf", "?", "blocked?">>,
            <<"sub", "bug", "bugs">>, <<"sub", "bugs", "bugs">>,
            <<"pre", "chen", "chen">>, <<"sub", "count", "count">>,
            <<"sub", "critical", "critical">>, <<"pre", "do", "done">>,
            <<"sub", "done", "done">>, <<"sub", "fin", "fin">>,
            <<"suf", "in", "fin">>, <<"sub", "fin", "fin-101">>,
            <<"sub", "fin", "find">>, <<"suf", "how", "how">>,
            <<"suf", "in", "in">>, <<"pre", "is", "issues">>,
            <<"suf", "label", "label">>, <<"suf", "in", "login">>,
            <<"pre", "many", "many">>, <<"suf", "sarah", "sarah">>,
            <<"sub", "sec", "sec">>, <<"sub", "sec", "security">>,
            <<"sub", "security", "security">>, <<"suf", "how", "show">>,
            <<"sub", "low", "slow">>, <<"sub", "task", "tasks">>,
            <<"sub", "tasks", "tasks">>, <<"suf", "?", "there?">>,
            <<"suf", "to", "to">>, <<"sub", "total", "total">>,
            <<"sub", "unassigned", "unassigned">>,
            <<"suf", "assigned", "unassigned">>} |->
        CASE c = <<"suf", "?", "?">> -> ""
          [] c = <<"pre", "chen", "Chen">> -> ""
          [] c = <<"sub", "fin", "FIN">> -> ""
          [] c = <<"suf", "in", "FIN">> -> "F"
          [] c = <<"sub", "fin", "FIN-101">> -> "-101"
          [] c = <<"suf", "how", "How">> -> ""
          [] c = <<"sub", "sec", "SEC">> -> ""
          [] c = <<"suf", "sarah", "Sarah">> -> ""
          [] c = <<"suf", "how", "Show">> -> "S"
          [] c = <<"suf", "assigned", "assigned">> -> ""
          [] c = <<"sub", "blocked", "blocked">> -> ""
          [] c = <<"sub", "blocked", "blocked?">> -> "?"
          [] c = <<"suf", "?", "blocked?">> -> "blocked"
          [] c = <<"sub", "bug", "bugs">> -> "s"
          [] c = <<"sub", "bugs", "bugs">> -> ""
          [] c = <<"pre", "chen", "chen">> -> ""
          [] c = <<"sub", "count", "count">> -> ""
          [] c = <<"sub", "critical", "critical">> -> ""
          [] c = <<"pre", "do", "done">> -> "ne"
          [] c = <<"sub", "done", "done">> -> ""
          [] c = <<"sub", "fin", "fin">> -> ""
          [] c = <<"suf", "in", "fin">> -> "f"
          [] c = <<"sub", "fin", "fin-101">> -> "-101"
          [] c = <<"sub", "fin", "find">> -> "d"
          [] c = <<"suf", "how", "how">> -> ""
          [] c = <<"suf", "in", "in">> -> ""
          [] c = <<"pre", "is", "issues">> -> "sues"
          [] c = <<"suf", "label", "label">> -> ""
          [] c = <<"suf", "in", "login">> -> "log"
          [] c = <<"pre", "many", "many">> -> ""
          [] c = <<"suf", "sarah", "sarah">> -> ""
          [] c = <<"sub", "sec", "sec">> -> ""
          [] c = <<"sub", "sec", "security">> -> "urity"
          [] c = <<"sub", "security", "security">> -> ""
          [] c = <<"suf", "how", "show">> -> "s"
          [] c = <<"sub", "low", "slow">> -> "s"
          [] c = <<"sub", "task", "tasks">> -> "s"
          [] c = <<"sub", "tasks", "tasks">> -> ""
          [] c = <<"suf", "?", "there?">> -> "there"
          [] c = <<"suf", "to", "to">> -> ""
          [] c = <<"sub", "total", "total">> -> ""
          [] c = <<"sub", "unassigned", "unassigned">> -> ""
          [] c = <<"suf", "assigned", "unassigned">> -> "un"]

Has(kind, needle, tok) == <<kind, needle, tok>> \in DOMAIN Cuts
Cut(kind, needle, tok) == Cuts[<<kind, needle, tok>>]

\* `needle in query_lower` for a needle of one word or of two words with one
\* blank between them.
InQuery(needle, q) ==
    IF Len(needle) = 1
    THEN \E i \in DOMAIN q : Has("sub", needle[1], q[i])
    ELSE \E i \in 1..(Len(q) - 1) :
             Has("suf", needle[1], q[i]) /\ Has("pre", needle[2], q[i + 1])

\* re.search(rf'\b(?:{first} {second})\b', query_lower) for some first and
\* second word of the two sets, and re.search(rf'\b(?:{word})\b', ...).
HasPhrase(firsts, seconds, q) ==
    \E i \in 1..(Len(q) - 1) :
        LET a == Shape(q[i])
            b == Shape(q[i + 1])
        IN  /\ a.tail /\ a.runs # <<>> /\ a.runs[Len(a.runs)] \in firsts
            /\ b.word # "" /\ b.runs[1] \in seconds
HasWord(words, q) ==
    \E i \in DOMAIN q : Range(Shape(q[i]).runs) \cap words # {}

\* The classifier's lists without the priorities.
valid_valuesNoPriorities ==
    [statuses |-> <<"To Do", "In Progress", "In Review", "Done", "Blocked">>,
     priorities |-> <<>>,
     types |-> <<"Bug", "Story", "Task", "Spike", "Epic">>,
     projects |-> <<"FIN", "SEC">>]

\* The classifier's own lists (the orchestrator constructs it without any).
valid_values ==
    [statuses |-> <<"To Do", "In Progress", "In Review", "Done", "Blocked">>,
     priorities |-> <<"Critical", "High", "Medium", "Low">>,
     types |-> <<"Bug", "Story", "Task", "Spike", "Epic">>,
     projects |-> <<"FIN", "SEC">>]

\* The first element of a sequence that satisfies Test, or None.
FirstOr(s, Test(_)) ==
    LET hits == SelectSeq(s, Test) IN IF hits = <<>> THEN None ELSE hits[1]

\* type_mapping, in the order of the dictionary.
type_mapping ==
    << <<"bug", "Bug">>, <<"bugs", "Bug">>, <<"story", "Story">>,
       <<"stories", "Story">>, <<"task", "Task">>, <<"tasks", "Task">>,
       <<"spike", "Spike">>, <<"spikes", "Spike">>, <<"epic", "Epic">>,
       <<"epics", "Epic">> >>

\* re.search(r'assigned to\s+([A-Z][a-z]+(?:\s+[A-Z][a-z]+)?)', query,
\* re.IGNORECASE): group(1) at the leftmost match, or None.  Under IGNORECASE
\* each of the two words is a run of two letters or more.
AssigneeMatch(query) ==
    LET n == Len(query)
        at == {i \in 1..(n - 2) : /\ Has("suf", "assigned", query[i])
                                  /\ Lower(query[i + 1]) = "to"
                                  /\ Shape(query[i + 2]).name # ""}
        i == CHOOSE k \in at : \A j \in at : k <= j
        first == Shape(query[i + 2]).name
        second == IF first = query[i + 2] /\ i + 3 <= n
                  THEN Shape(query[i + 3]).name ELSE ""
    IN  IF at = {} THEN None
        ELSE IF second = "" THEN first
        ELSE first \o " " \o second

\* re.search(r'label[s]?\s+(?:is|=|:)?\s*(\w+)', query_lower): group(1) at the
\* leftmost match, or None.  The optional "is" is taken whenever a word
\* character can still follow it, also out of the front of a longer word.
LabelMatch(query_lower) ==
    LET n == Len(query_lower)
        next(i) == TokAt(query_lower, i + 1)
        after(i) == Shape(TokAt(query_lower, i + 2)).word
        group(i) ==
            IF Has("pre", "is", next(i)) /\ Shape(Cut("pre", "is", next(i))).word # ""
            THEN Shape(Cut("pre", "is", next(i))).word
            ELSE IF next(i) \in {"is", "=", ":"} /\ after(i) # "" THEN after(i)
            ELSE Shape(next(i)).word
        at == {i \in 1..(n - 1) :
                  /\ Has("suf", "label", query_lower[i]) \/ Has("suf", "labels", query_lower[i])
                  /\ group(i) # ""}
    IN  IF at = {} THEN None ELSE group(CHOOSE k \in at : \A j \in at : k <= j)

\* _extract_jql_fields.  A key the source does not set is None here (FALSE
\* for assignee_null); the dictionary is empty when every key is.
ExtractJqlFields(query) ==
    LET query_lower == LowerSeq(query)
        project_matches == Concat([i \in DOMAIN query |-> Shape(query[i]).upper])
        types == SelectSeq(type_mapping, LAMBDA wt : InQuery(<<wt[1]>>, query_lower))
    IN  [project |-> FirstOr(project_matches,
                             LAMBDA match : match \in Range(valid_values.projects)),
         status |-> FirstOr(valid_values.statuses,
                            LAMBDA status : InQuery(Shape(status).runs, query_lower)),
         priority |-> FirstOr(valid_values.priorities,
                              LAMBDA priority : InQuery(<<Lower(priority)>>, query_lower)),
         type |-> IF types = <<>> THEN None ELSE types[1][2],
         assignee |-> AssigneeMatch(query),
         assignee_null |-> InQuery(<<"unassigned">>, query_lower),
         labels |-> LabelMatch(query_lower)]

\* SEMANTIC_PATTERNS, searched in query_lower.
HasSemanticPatterns(query_lower) ==
    \/ HasPhrase({"related"}, {"to"}, query_lower)
    \/ HasWord({"about", "regarding", "concerning"}, query_lower)
    \/ HasPhrase({"similar"}, {"to"}, query_lower)
    \/ HasWord({"like"}, query_lower)
    \/ HasPhrase({"issue", "issues", "problem", "problems"}, {"with"}, query_lower)
    \/ HasPhrase({"what", "which", "find", "show", "get"},
                 {"are", "issue", "issues", "ticket", "tickets"}, query_lower)
    \/ HasPhrase({"working"}, {"on"}, query_lower)
    \/ HasPhrase({"dealing"}, {"with"}, query_lower)

\* COUNT_PATTERNS, searched in query_lower.
IsCountQuery(query_lower) ==
    \/ HasPhrase({"how"}, {"many"}, query_lower)
    \/ HasPhrase({"number"}, {"of"}, query_lower)
    \/ HasWord({"count", "total"}, query_lower)

\* _build_jql: the clauses, joined by AND.  A quoted value, f"'{value}'", is
\* one token of the structured query.
BuildJql(fields) ==
    LET Quote(value) == "'" \o value \o "'"
    IN
    JoinWith(
        (IF fields.project # None THEN << <<"project", "=", fields.project>> >> ELSE <<>>)
        \o (IF fields.status # None
            THEN << <<"status", "=", Quote(fields.status)>> >> ELSE <<>>)
        \o (IF fields.priority # None
            THEN << <<"priority", "=", fields.priority>> >> ELSE <<>>)
        \o (IF fields.type # None THEN << <<"type", "=", fields.type>> >> ELSE <<>>)
        \o (IF fields.assignee # None
            THEN << <<"assignee", "=", Quote(fields.assignee)>> >> ELSE <<>>)
        \o (IF fields.assignee_null THEN << <<"assignee", "IS", "NULL">> >> ELSE <<>>)
        \o (IF fields.labels # None
            THEN << <<"labels", "=", Quote(fields.labels)>> >> ELSE <<>>),
        <<"AND">>)

\* _clean_semantic_query: a leading question word followed by white space
\* goes, and a '?' that ends the query.  Of a text that has lost parts, the
\* empty places between blanks go (str.strip(), and white space runs are not
\* told apart).
CleanSemanticQuery(query) ==
    LET n == Len(query)
        cleaned == IF n >= 2 /\ Lower(query[1]) \in {"what", "which", "show", "find",
                                                      "get", "list"}
                   THEN Tail(query) ELSE query
        m == Len(cleaned)
    IN  SelectSeq([i \in DOMAIN cleaned |->
                    IF i = m /\ Has("suf", "?", cleaned[i])
                    THEN Cut("suf", "?", cleaned[i]) ELSE cleaned[i]],
                  LAMBDA w : w # "")

\* The first place from i on that holds a word, Len(t) + 1 when there is none.
RECURSIVE NextFilled(_, _)
NextFilled(t, i) ==
    IF i \in DOMAIN t /\ t[i] = "" THEN NextFilled(t, i + 1) ELSE i

\* re.sub(re.escape(value), '', result, flags=re.IGNORECASE) for a value of
\* two words: acc is the part of the current word already passed.
RECURSIVE RemovePair(_, _, _, _)
RemovePair(acc, t, first, second) ==
    IF t = <<>> THEN <<>>
    ELSE IF Len(t) = 1 THEN <<acc \o t[1]>>
    ELSE IF Has("suf", first, t[1]) /\ Has("pre", second, t[2])
    THEN RemovePair(acc \o Cut("suf", first, t[1]),
                    <<Cut("pre", second, t[2])>> \o SubSeq(t, 3, Len(t)), first, second)
    ELSE <<acc \o t[1]>> \o RemovePair("", Tail(t), first, second)

\* The same for any value; a place left empty stays, as the blanks around it
\* do in the source.
RemoveValue(t, value) ==
    LET words == Shape(value).runs
    IN  IF value = None THEN t
        ELSE IF Len(words) = 1
        THEN [i \in DOMAIN t |-> IF Has("sub", words[1], t[i])
                                 THEN Cut("sub", words[1], t[i]) ELSE t[i]]
        ELSE RemovePair("", t, words[1], words[2])

\* The three filter phrases _extract_semantic_part removes: a word ending
\* (suffix), the word that must follow it after one blank (adjacent), the
\* word that may or must come next (middle), and whether a second word is
\* taken after the first.
FilterPhrases ==
    << [suffix |-> "assigned", adjacent |-> "to", middle |-> "",
        middleNeeded |-> FALSE, second |-> TRUE],
       [suffix |-> "in", adjacent |-> "", middle |-> "project",
        middleNeeded |-> FALSE, second |-> FALSE],
       [suffix |-> "with", adjacent |-> "", middle |-> "status",
        middleNeeded |-> TRUE, second |-> FALSE] >>

\* re.sub(phrase, '', result, flags=re.IGNORECASE): every match goes, left to
\* right; what a match leaves of its first and last word becomes one word.
RECURSIVE RemovePhrase(_, _, _)
RemovePhrase(acc, t, p) ==
    IF t = <<>> THEN <<>>
    ELSE
    LET fixed == IF p.adjacent = "" THEN 1 ELSE 2
        j == NextFilled(t, fixed + 1)
        useMiddle == /\ p.middle # ""
                     /\ Lower(TokAt(t, j)) = p.middle
                     /\ Shape(TokAt(t, NextFilled(t, j + 1))).word # ""
        w1 == IF useMiddle THEN NextFilled(t, j + 1) ELSE j
        w2 == NextFilled(t, w1 + 1)
        two == /\ p.second
               /\ Shape(TokAt(t, w1)).rest = ""
               /\ Shape(TokAt(t, w2)).word # ""
        last == IF two THEN w2 ELSE w1
        found == /\ Has("suf", p.suffix, t[1])
                 /\ p.adjacent = "" \/ Lower(TokAt(t, 2)) = p.adjacent
                 /\ useMiddle \/ ~p.middleNeeded
                 /\ Shape(TokAt(t, w1)).word # ""
    IN  IF found
        THEN RemovePhrase(acc \o Cut("suf", p.suffix, t[1]),
                          <<Shape(t[last]).rest>> \o SubSeq(t, last + 1, Len(t)), p)
        ELSE <<acc \o t[1]>> \o RemovePhrase("", Tail(t), p)

\* _extract_semantic_part.
ExtractSemanticPart(query, jql_fields) ==
    LET v1 == RemoveValue(query, jql_fields.project)
        v2 == RemoveValue(v1, jql_fields.status)
        v3 == RemoveValue(v2, jql_fields.priority)
        v4 == RemoveValue(v3, jql_fields.type)
        v5 == RemoveValue(v4, jql_fields.assignee)
        v6 == RemoveValue(v5, jql_fields.labels)
        p1 == RemovePhrase("", v6, FilterPhrases[1])
        p2 == RemovePhrase("", p1, FilterPhrases[2])
    IN  SelectSeq(RemovePhrase("", p2, FilterPhrases[3]), LAMBDA w : w # "")

\* A string field that is not set.
NoText == <<None>>

\* ClassificationResult.
ClassificationResult(mode, confidence, jql_query, semantic_query, hybrid_jql_filter, reasoning, clarification_prompt) ==
    [mode |-> mode, confidence |-> confidence, jql_query |-> jql_query,
     semantic_query |-> semantic_query, hybrid_jql_filter |-> hybrid_jql_filter,
     reasoning |-> reasoning, clarification_prompt |-> clarification_prompt]

\* The decision with the count intent looked at last: a count query with
\* fields and free-text indicators becomes a hybrid query.
ClassifyCountLast(query, jql_fields, has_semantic_indicators, is_count_query) ==
    LET fields == jql_fields # [project |-> None, status |-> None, priority |-> None,
                                type |-> None, assignee |-> None,
                                assignee_null |-> FALSE, labels |-> None]
    IN  IF fields /\ ~has_semantic_indicators
        THEN ClassificationResult("jql", "0.9", BuildJql(jql_fields), NoText, NoText,
                                  "Detected JQL fields", NoText)
        ELSE IF has_semantic_indicators /\ ~fields
        THEN ClassificationResult("semantic", "0.85", NoText, CleanSemanticQuery(query),
                                  NoText, "Conceptual/fuzzy query detected", NoText)
        ELSE IF fields /\ has_semantic_indicators
        THEN ClassificationResult("hybrid", "0.8", NoText,
                                  ExtractSemanticPart(query, jql_fields),
                                  BuildJql(jql_fields),
                                  "Both structured filters and conceptual elements detected",
                                  NoText)
        ELSE ClassificationResult("semantic", "0.6", NoText, query, NoText,
                                  "No clear structure detected, defaulting to semantic search",
                                  NoText)

\* The decision of classify, given what it has detected in the query.
Classify(query, jql_fields, has_semantic_indicators, is_count_query) ==
    LET fields == jql_fields # [project |-> None, status |-> None, priority |-> None,
                                type |-> None, assignee |-> None,
                                assignee_null |-> FALSE, labels |-> None]
    IN  IF is_count_query /\ fields
        THEN ClassificationResult("jql", "0.95", BuildJql(jql_fields), NoText, NoText,
                                  "Count query with explicit filters", NoText)
        ELSE IF fields /\ ~has_semantic_indicators
        THEN ClassificationResult("jql", "0.9", BuildJql(jql_fields), NoText, NoText,
                                  "Detected JQL fields", NoText)
        ELSE IF has_semantic_indicators /\ ~fields
        THEN ClassificationResult("semantic", "0.85", NoText, CleanSemanticQuery(query),
                                  NoText, "Conceptual/fuzzy query detected", NoText)
        ELSE IF fields /\ has_semantic_indicators
        THEN ClassificationResult("hybrid", "0.8", NoText,
                                  ExtractSemanticPart(query, jql_fields),
                                  BuildJql(jql_fields),
                                  "Both structured filters and conceptual elements detected",
                                  NoText)
        ELSE ClassificationResult("semantic", "0.6", NoText, query, NoText,
                                  "No clear structure detected, defaulting to semantic search",
                                  NoText)

\* QueryClassifier.classify.
classify(query) ==
    IF query = <<>> \/ (Len(query) = 1 /\ StrLen(Lower(query[1])) < 3)
    THEN ClassificationResult("clarification_needed", "1.0", NoText, NoText, NoText,
                              "Query too short",
                              <<"Could", "you", "provide", "more", "details", "about",
                                "what", "you're", "looking", "for", "?">>)
    ELSE Classify(query, ExtractJqlFields(query), HasSemanticPatterns(LowerSeq(query)),
                  IsCountQuery(LowerSeq(query)))

\* ------------------------------------------------------ the semantic search

\* The stop words of _tokenize.
Stopwords ==
    {"the", "a", "an", "is", "are", "was", "were", "be", "been", "being", "have",
     "has", "had", "do", "does", "did", "will", "would", "could", "should", "may",
     "might", "must", "shall", "can", "need", "dare", "ought", "used", "to", "of",
     "in", "for", "on", "with", "at", "by", "from", "as", "into", "through",
     "during", "before", "after", "above", "below", "between", "under", "again",
     "further", "then", "once", "and", "but", "or", "nor", "so", "yet", "both",
     "either", "neither", "not", "only", "own", "same", "than", "too", "very",
     "just", "also", "now", "here", "there", "when", "where", "why", "how", "all",
     "each", "every", "any", "this", "that", "these", "those", "it", "its"}

\* _tokenize(' '.join(text_parts).lower()): the runs of [a-z0-9]+ of the
\* parts, without the stop words and the single characters.
Tokenize(text_parts) ==
    SelectSeq(Concat([i \in DOMAIN text_parts |-> Shape(text_parts[i]).runs]),
              LAMBDA t : t \notin Stopwords /\ StrLen(t) > 1)

\* _build_index: the tokens of one record's searchable text.
DocTokens(issue) ==
    Tokenize(<<issue.key, issue.summary,
               IF issue.description \in {Missing, None} THEN "" ELSE issue.description,
               issue.status, issue.priority, issue.type>>
             \o GetList(issue.labels) \o GetList(issue.components)
             \o (IF issue.assignee # None THEN <<issue.assignee>> ELSE <<>>)
             \o (IF issue.reporter # None THEN <<issue.reporter>> ELSE <<>>)
             \o GetList(issue.comments))

\* self.doc_tokens, in the order of the records (the keys are distinct).
doc_tokens == [i \in DOMAIN issues |-> DocTokens(issues[i])]

\* math.log(num_docs / freq) in thousandths, rounded.
LnMilli ==
    [p \in {<<n, df>> \in (1..5) \X (1..5) : df <= n} |->
        CASE p = <<1, 1>> -> 0
          [] p = <<2, 1>> -> 693
          [] p = <<2, 2>> -> 0
          [] p = <<3, 1>> -> 1099
          [] p = <<3, 2>> -> 405
          [] p = <<3, 3>> -> 0
          [] p = <<4, 1>> -> 1386
          [] p = <<4, 2>> -> 693
          [] p = <<4, 3>> -> 288
          [] p = <<4, 4>> -> 0
          [] p = <<5, 1>> -> 1609
          [] p = <<5, 2>> -> 916
          [] p = <<5, 3>> -> 511
          [] p = <<5, 4>> -> 223
          [] p = <<5, 5>> -> 0]

\* _calculate_idf: self.idf, in thousandths.
CalculateIdf(docs) ==
    [token \in UNION {Range(docs[i]) : i \in DOMAIN docs} |->
        LnMilli[<<Len(docs), Cardinality({i \in DOMAIN docs : token \in Range(docs[i])})>>]]

RECURSIVE SumOver(_, _)
\* The sum of f over the set S.
SumOver(f, S) ==
    IF S = {} THEN 0
    ELSE LET x == CHOOSE y \in S : TRUE IN f[x] + SumOver(f, S \ {x})

RECURSIVE SqrtBetween(_, _, _)
\* The integer part of math.sqrt(n), searched between lo and hi.
SqrtBetween(n, lo, hi) ==
    IF lo >= hi THEN lo
    ELSE LET mid == (lo + hi + 1) \div 2
         IN  IF mid * mid <= n THEN SqrtBetween(n, mid, hi)
             ELSE SqrtBetween(n, lo, mid - 1)

RECURSIVE LongDivision(_, _, _, _)
\* quotient * 10^places + the next `places` decimal digits of remainder / den.
LongDivision(quotient, remainder, den, places) ==
    IF places = 0 THEN quotient
    ELSE LongDivision(quotient * 10 + (remainder * 10) \div den,
                      (remainder * 10) % den, den, places - 1)

\* dot_product / (sqrt(query_norm) * sqrt(doc_norm)), then round(score, 4):
\* the score in ten-thousandths.  The weights are integers (thousandths), so
\* the score is exact to about three decimals; the square roots are integer
\* parts, so the quotient is cut at 1.0, which the cosine never exceeds.
Cosine(q_tfidf, d_tfidf, terms) ==
    LET dot_product == SumOver([t \in terms |-> q_tfidf[t] * d_tfidf[t]], terms)
        query_norm == SumOver([t \in terms |-> q_tfidf[t] * q_tfidf[t]], terms)
        doc_norm == SumOver([t \in terms |-> d_tfidf[t] * d_tfidf[t]], terms)
        den == SqrtBetween(query_norm, 0, 46340) * SqrtBetween(doc_norm, 0, 46340)
        AtMostOne(score) == IF score > 10000 THEN 10000 ELSE score
    IN  IF query_norm = 0 \/ doc_norm = 0 THEN 0
        ELSE AtMostOne((LongDivision(dot_product \div den, dot_product % den, den, 5) + 5) \div 10)

\* _calculate_similarity.  The source divides the document's term counts by
\* the document's length, which cancels in the cosine.
CalculateSimilarity(query_tokens, tokens, idf) ==
    LET terms == Range(query_tokens) \cup Range(tokens)
        count(s, term) == Cardinality({i \in DOMAIN s : s[i] = term})
        weight(term) == IF term \in DOMAIN idf THEN idf[term] ELSE 0
    IN  IF tokens = <<>> THEN 0
        ELSE Cosine([t \in terms |-> count(query_tokens, t) * weight(t)],
                    [t \in terms |-> count(tokens, t) * weight(t)], terms)

\* The default min_score of search (0.1), in ten-thousandths.
MinScore == 1000

\* SemanticResult.
SemanticResult(success, list, query, relevance_scores, error) ==
    [success |-> success, issues |-> list, total_count |-> Len(list), query |-> query,
     search_mode |-> "semantic", relevance_scores |-> relevance_scores, error |-> error]

\* A variant of the ranking that keeps the records below min_score.
RankedResultNoThreshold(query, top_k, min_score, scores) ==
    LET kept == DOMAIN scores
        before(i, j) == scores[i] > scores[j] \/ (scores[i] = scores[j] /\ i < j)
        place(i) == Cardinality({j \in kept : before(j, i)}) + 1
        order == [p \in 1..Cardinality(kept) |-> CHOOSE i \in kept : place(i) = p]
        sorted_keys == SubSeq(order, 1, IF top_k < Len(order) THEN top_k ELSE Len(order))
    IN  SemanticResult(TRUE, [p \in DOMAIN sorted_keys |-> issues[sorted_keys[p]]], query,
                       [k \in {issues[sorted_keys[p]].key : p \in DOMAIN sorted_keys} |->
                           scores[CHOOSE i \in kept : issues[i].key = k]],
                       None)

\* The body of search once the scores are computed: the records whose score
\* reaches min_score, by descending score, records of equal score in the
\* order of the index, cut to top_k.
RankedResult(query, top_k, min_score, scores) ==
    LET kept == {i \in DOMAIN scores : scores[i] >= min_score}
        before(i, j) == scores[i] > scores[j] \/ (scores[i] = scores[j] /\ i < j)
        place(i) == Cardinality({j \in kept : before(j, i)}) + 1
        order == [p \in 1..Cardinality(kept) |-> CHOOSE i \in kept : place(i) = p]
        sorted_keys == SubSeq(order, 1, IF top_k < Len(order) THEN top_k ELSE Len(order))
    IN  SemanticResult(TRUE, [p \in DOMAIN sorted_keys |-> issues[sorted_keys[p]]], query,
                       [k \in {issues[sorted_keys[p]].key : p \in DOMAIN sorted_keys} |->
                           scores[CHOOSE i \in kept : issues[i].key = k]],
                       None)

\* search from the tokens of the query on.
SearchTokens(query_tokens, query, top_k, min_score) ==
    LET Searched(docs, idf) ==
            IF query_tokens = <<>>
            THEN SemanticResult(TRUE, <<>>, query, <<>>,
                                "Query produced no searchable terms")
            ELSE RankedResult(query, top_k, min_score,
                              [i \in DOMAIN docs |->
                                  CalculateSimilarity(query_tokens, docs[i], idf)])
    IN  Searched(doc_tokens, CalculateIdf(doc_tokens))

\* SemanticSearch.search.
search(query, top_k, min_score) == SearchTokens(Tokenize(query), query, top_k, min_score)

\* A variant that leaves the source record among the results.
FoundSimilarWithSource(issue_key, top_k, result) ==
    [success |-> result.success,
     issues |-> SubSeq(result.issues, 1,
                       IF top_k < Len(result.issues) THEN top_k ELSE Len(result.issues)),
     total_count |-> IF top_k < Len(result.issues) THEN top_k ELSE Len(result.issues),
     query |-> <<"similar to", issue_key>>,
     search_mode |-> "similarity",
     relevance_scores |-> result.relevance_scores,
     error |-> result.error]

\* find_similar after its search: the source record is taken out of the
\* records, which are cut to top_k, and out of the scores.
FoundSimilar(issue_key, top_k, result) ==
    LET others == SelectSeq(result.issues, LAMBDA i : i.key # issue_key)
        list == SubSeq(others, 1, IF top_k < Len(others) THEN top_k ELSE Len(others))
    IN  [success |-> result.success,
         issues |-> list,
         total_count |-> Len(list),
         query |-> <<"similar to", issue_key>>,
         search_mode |-> "similarity",
         relevance_scores |-> [k \in DOMAIN result.relevance_scores \ {issue_key} |->
                                  result.relevance_scores[k]],
         error |-> result.error]

\* SemanticSearch.find_similar: the query is the source record's own text,
\* whose tokens the index holds.
find_similar(issue_key, top_k) ==
    IF \A i \in DOMAIN issues : issues[i].key # issue_key
    THEN [success |-> FALSE, issues |-> <<>>, total_count |-> 0,
          query |-> <<"similar to", issue_key>>, search_mode |-> "similarity",
          relevance_scores |-> <<>>, error |-> "Issue " \o issue_key \o " not found"]
    ELSE FoundSimilar(issue_key, top_k,
                      SearchTokens(doc_tokens[CHOOSE i \in DOMAIN issues :
                                                  issues[i].key = issue_key],
                                   <<"text of", issue_key>>, top_k + 1, MinScore))

\* ---------------------------------------------------------- the orchestrator

\* What a retrieval step hands back: the records and the structured query
\* used, or the message of the exception it raised; searched tells whether the
\* step has run the ranked retrieval.
Retrieved(raised, list, jql_used, error, searched) ==
    [raised |-> raised, issues |-> list, jql_used |-> jql_used, error |-> error,
     searched |-> searched]

\* _execute_jql.
execute_jql(jql) ==
    LET Returned(result) ==
            IF ~result.success
            THEN Retrieved(TRUE, <<>>, NoText, <<"JQL execution failed">> \o result.error,
                           FALSE)
            ELSE Retrieved(FALSE, result.issues, jql, <<>>, FALSE)
    IN  Returned(execute(jql))

\* The top_k _execute_semantic passes to search.
TopK == 10

\* _execute_semantic.
execute_semantic(query) ==
    LET Returned(result) ==
            IF ~result.success
            THEN Retrieved(TRUE, <<>>, NoText, <<"Semantic search failed", result.error>>,
                           TRUE)
            ELSE Retrieved(FALSE, result.issues, NoText, <<>>, TRUE)
    IN  Returned(search(query, TopK, MinScore))

\* The ranking step without the records the ranking has left out.
RankWithinRankedOnly(jql_issues, ranked) ==
    SelectSeq(ranked, LAMBDA i : i.key \in RetrievedKeys(jql_issues))

\* The ranking step of _execute_hybrid: the ranked records that passed the
\* structured filter, then the filtered records that the ranking left out.
RankWithin(jql_issues, ranked) ==
    LET jql_keys == RetrievedKeys(jql_issues)
        ranked_issues == SelectSeq(ranked, LAMBDA i : i.key \in jql_keys)
        ranked_keys == RetrievedKeys(ranked_issues)
    IN  ranked_issues \o SelectSeq(jql_issues, LAMBDA issue : issue.key \notin ranked_keys)

\* _execute_hybrid.
execute_hybrid(jql_filter, semantic_query) ==
    LET Returned(jql_result) ==
            IF ~jql_result.success
            THEN Retrieved(TRUE, <<>>, NoText, <<"JQL filter failed">> \o jql_result.error,
                           FALSE)
            ELSE IF jql_result.issues = <<>>
            THEN Retrieved(FALSE, <<>>, jql_filter, <<>>, FALSE)
            ELSE Retrieved(FALSE,
                           RankWithin(jql_result.issues,
                                      search(semantic_query, Len(jql_result.issues), MinScore).issues),
                           jql_filter, <<>>, TRUE)
    IN  Returned(execute(jql_filter))

\* Step 3 of process_query: the retrieval the mode selects.
Retrieve(classification) ==
    CASE classification.mode = "jql" -> execute_jql(classification.jql_query)
      [] classification.mode = "semantic" -> execute_semantic(classification.semantic_query)
      [] classification.mode = "hybrid" ->
            execute_hybrid(classification.hybrid_jql_filter, classification.semantic_query)

\* _generate_no_results_answer.
generate_no_results_answer ==
    <<"No", "issues", "found", "matching", "your", "query", ".", "This", "could",
      "mean", ":", NL,
      "bullet", "No", "issues", "match", "your", "criteria", NL,
      "bullet", "You", "may", "not", "have", "permission", "to", "view", "matching",
      "issues", NL,
      "bullet", "Try", "broadening", "your", "search", "terms">>

\* How many records the long listing shows.
MaxListed == 5

\* _generate_answer.  The status summary of the long listing is
\* f"{count} {status}" for each status, in the order the statuses first appear.
generate_answer(query, list, mode) ==
    LET query_lower == LowerSeq(query)
        firsts == SelectSeq(Idx(list), LAMBDA i :
                      \A j \in 1..(i - 1) : list[j].status # list[i].status)
        count(status) == Cardinality({i \in DOMAIN list : list[i].status = status})
        status_summary ==
            JoinWith([k \in DOMAIN firsts |->
                         <<NumTok(count(list[firsts[k]].status)), list[firsts[k]].status>>],
                     <<",">>)
        n == Len(list)
        assignee(issue) == IF issue.assignee # None THEN Tokens(issue.assignee)
                           ELSE <<"Unassigned">>
        line(issue) == <<"bullet", "**", issue.key, "**", ":">> \o Tokens(issue.summary)
                       \o <<"[", issue.status, "]">>
    IN  IF list = <<>> THEN generate_no_results_answer
        ELSE IF \/ InQuery(<<"how", "many">>, query_lower)
                \/ InQuery(<<"count">>, query_lower)
                \/ InQuery(<<"number", "of">>, query_lower)
                \/ InQuery(<<"total">>, query_lower)
        THEN <<"There", "are", NumTok(n), "issue", "(s)", "matching", "your", "query", ".">>
        ELSE IF n <= MaxListed
        THEN JoinWith(<< <<"Found", NumTok(n), "issue", "(s):">> >>
                      \o [i \in DOMAIN list |-> line(list[i]) \o <<"-">> \o assignee(list[i])],
                      <<NL>>)
        ELSE JoinWith(<< <<"Found", NumTok(n), "issue", "(s)", "(">> \o status_summary
                         \o <<"):">> >>
                      \o [i \in 1..MaxListed |-> line(list[i])]
                      \o << <<"...", "and", NumTok(n - MaxListed), "more">> >>,
                      <<NL>>)

\* OrchestratorResponse; total_count is len(issues) at every return.
OrchestratorResponse(success, answer, list, query_mode, jql_used, semantic_query, validation_passed, errors, warnings, debug_info) ==
    [success |-> success, answer |-> answer, issues |-> list,
     total_count |-> Len(list), query_mode |-> query_mode, jql_used |-> jql_used,
     semantic_query |-> semantic_query, validation_passed |-> validation_passed,
     errors |-> errors, warnings |-> warnings, debug_info |-> debug_info]

\* OrchestratorResponse.to_dict: what the caller of the convenience function
\* receives; the records are cut to three fields and debug_info is left out.
to_dict(response) ==
    [success |-> response.success,
     answer |-> response.answer,
     issues |-> [i \in DOMAIN response.issues |->
                    [key |-> response.issues[i].key,
                     summary |-> response.issues[i].summary,
                     status |-> response.issues[i].status]],
     total_count |-> response.total_count,
     query_mode |-> response.query_mode,
     jql_used |-> response.jql_used,
     semantic_query |-> response.semantic_query,
     validation_passed |-> response.validation_passed,
     errors |-> response.errors,
     warnings |-> response.warnings]

\* Steps 7 and 8 of process_query: the fallback to the grounded rendering, the
\* warning about hidden records and the response.
Respond(classification, retrieved, filter_result, answer, validation) ==
    LET filtered_issues == filter_result.allowed_issues
        debug_info ==
            [classification |-> classification,
             result_count |-> [mode |-> classification.mode,
                               count |-> Len(retrieved.issues)],
             permission_filter |-> [before |-> Len(retrieved.issues),
                                    after |-> Len(filtered_issues),
                                    filtered |-> filter_result.filtered_count],
             validation |-> [passed |-> validation.valid, errors |-> validation.errors,
                             warnings |-> validation.warnings],
             fallback_to_grounded |-> ~validation.valid]
    IN  OrchestratorResponse(
            TRUE,
            IF ~validation.valid
            THEN create_grounded_response(filtered_issues, "list", TRUE).text
            ELSE answer,
            filtered_issues, classification.mode, retrieved.jql_used,
            classification.semantic_query, validation.valid, <<>>,
            IF filter_result.filtered_count > 0
            THEN << <<NumTok(filter_result.filtered_count), "issue", "(s)", "hidden",
                      "due", "to", "permissions">> >>
            ELSE <<>>,
            debug_info)

\* Step 6 with the answer validated against the records as retrieved, before
\* the filter.
ValidatedAgainstRetrieved(classification, retrieved, filter_result, answer) ==
    Respond(classification, retrieved, filter_result, answer,
            validate(answer, retrieved.issues))

\* Step 6 of process_query: the generated answer is validated against the
\* filtered records.
Validated(classification, retrieved, filter_result, answer) ==
    Respond(classification, retrieved, filter_result, answer,
            validate(answer, filter_result.allowed_issues))

\* Step 5 of process_query: the answer is generated from the filtered records.
Filtered(query, classification, retrieved, filter_result) ==
    Validated(classification, retrieved, filter_result,
              generate_answer(query, filter_result.allowed_issues, classification.mode))

\* A variant of step 4 that lets every retrieved record through.
RetrievalSkipsFilter(query, user_id, classification, retrieved) ==
    IF retrieved.raised
    THEN OrchestratorResponse(
             FALSE, <<"An error occurred while searching", ":">> \o retrieved.error,
             <<>>, classification.mode, NoText, NoText, TRUE,
             <<retrieved.error>>, <<>>, [classification |-> classification])
    ELSE Filtered(query, classification, retrieved,
                  [allowed_issues |-> retrieved.issues,
                   filtered_count |-> 0,
                   total_before_filter |-> Len(retrieved.issues),
                   user_id |-> user_id,
                   filter_reasons |-> [k \in {} |-> Allowed]])

\* The except clause of step 3, and step 4: the retrieved records are
\* filtered for the user.
Retrieval(query, user_id, classification, retrieved) ==
    IF retrieved.raised
    THEN OrchestratorResponse(
             FALSE, <<"An error occurred while searching", ":">> \o retrieved.error,
             <<>>, classification.mode, NoText, NoText, TRUE,
             <<retrieved.error>>, <<>>, [classification |-> classification])
    ELSE Filtered(query, classification, retrieved,
                  filter_issues(retrieved.issues, user_id))

\* Step 2 of process_query, and the mode no retrieval knows.
Classified(query, user_id, classification) ==
    IF classification.mode = "clarification_needed"
    THEN OrchestratorResponse(
             TRUE,
             IF classification.clarification_prompt # NoText
             THEN classification.clarification_prompt
             ELSE <<"Could", "you", "please", "provide", "more", "details", "?">>,
             <<>>, "clarification", NoText, NoText, TRUE, <<>>, <<>>,
             [classification |-> classification])
    ELSE IF classification.mode \notin {"jql", "semantic", "hybrid"}
    THEN OrchestratorResponse(
             FALSE,
             <<"I", "couldn't", "understand", "your", "query", ".", "Please",
               "try", "rephrasing", ".">>,
             <<>>, "error", NoText, NoText, TRUE, <<"Unknown query mode">>, <<>>,
             [classification |-> classification])
    ELSE Retrieval(query, user_id, classification, Retrieve(classification))

\* Orchestrator.process_query.
process_query(query, user_id) == Classified(query, user_id, classify(query))

\* ----------------------------------------------- the validator's operations

\* The words an answer text handed to validate is made of.
TextVocabulary ==
    {"FIN-101", "FAKE-999", "1", "2", "issues", "tickets",
     "There", "are", "found", "total", "of", NL}

\* Every text of at most MaxTextLen tokens.
Texts == UNION {[1..n -> TextVocabulary] : n \in 0..MaxTextLen}

\* Answers that state the status, the priority or the assignee of a record.
ClaimTexts ==
    {<<"FIN-101", "is", "In Progress">>,
     <<"FIN-101", "is", "Done">>,
     <<"FIN-101", "is", "high", "priority">>,
     <<"FIN-101", "is", "low", "priority">>,
     <<"FIN-101", "is", "assigned", "to", "Sarah", "Chen", ".">>,
     <<"FIN-101", "is", "assigned", "to", "Sarah">>,
     <<"FIN-101", "is", "assigned", "to", "Alex">>,
     <<"FIN-101", "is", "assigned", "to", "Sarah", "Chen", "and", "is", "In Progress">>,
     <<"FIN-101", "is", "assigned", "to", "Alex", "-", "urgent">>,
     <<"FIN-102", "is", "assigned", "to", "Alex", ",", "To Do">>,
     <<"SEC-201", "Done", NL, "FIN-10", "is", "Blocked">>}

\* The record lists a caller may hold: sub-lists of the universe.
RecordLists == SubSeqs(issues, MaxRetrieved)

\* A run starts with the components constructed over the data and one call
\* about to be made, its arguments drawn from the inputs of the operation.
InitValidator ==
    /\ issues \in {MockIssues, Tail(MockIssues)}
    /\ permissions = MockPermissions
    /\ pc = "call"
    /\ res = <<>>
    /\ \/ /\ op = "validate"
          /\ arg \in [response : Texts \cup ClaimTexts, retrieved_issues : RecordLists]
       \/ /\ op = "create_grounded_response"
          /\ arg \in [issues : RecordLists, query_type : QueryTypes]

\* validator.validate(response, retrieved_issues) on a caller's text.
Validate ==
    /\ pc = "call" /\ op = "validate"
    /\ res' = validate(arg.response, arg.retrieved_issues)
    /\ pc' = "done"
    /\ UNCHANGED <<issues, permissions, op, arg>>

\* validator.create_grounded_response(issues, query_type).
CreateGroundedResponse ==
    /\ pc = "call" /\ op = "create_grounded_response"
    /\ res' = create_grounded_response(arg.issues, arg.query_type, TRUE)
    /\ pc' = "done"
    /\ UNCHANGED <<issues, permissions, op, arg>>

\* validator.validate(grounded.text, issues) on the response just rendered
\* (test_grounded_response_is_safe).
ValidateGrounded ==
    /\ pc = "done" /\ op = "create_grounded_response"
    /\ op' = "validate_grounded"
    /\ arg' = [response |-> res.text, retrieved_issues |-> arg.issues,
               query_type |-> arg.query_type]
    /\ res' = validate(res.text, arg.issues)
    /\ pc' = "done"
    /\ UNCHANGED <<issues, permissions>>

NextValidator == Validate \/ CreateGroundedResponse \/ ValidateGrounded

SpecValidator == InitValidator /\ [][NextValidator]_vars

\* The identifiers of the record universe.
UniverseKeys == {issues[i].key : i \in DOMAIN issues}

\* C1: for every non-empty record list of the universe and every presentation
\* kind, the text rendered by create_grounded_response, validated against the
\* same records, is reported valid.
C1_GroundedResponseValidates ==
    (pc = "done" /\ op = "validate_grounded" /\ arg.retrieved_issues # <<>>)
        => res.valid

\* C19: validate reports valid exactly when it has recorded no hard failure;
\* an identifier of the record universe that is mentioned but was not
\* retrieved gives a warning and no error.
C19_ValidIffNoErrors ==
    (pc = "done" /\ op \in {"validate", "validate_grounded"}) =>
        /\ res.valid = (res.errors = {})
        /\ \A k \in (ExtractIssueKeys(arg.response) \cap UniverseKeys)
                        \ RetrievedKeys(arg.retrieved_issues) :
              /\ \E w \in res.warnings : w.key = k
              /\ \A e \in res.errors : e.key # k

\* C19 witness: a text that mentions a record of the universe which was not
\* retrieved has been reported valid, with a warning.
C19_Witness ==
    /\ pc = "done" /\ op = "validate"
    /\ "FIN-101" \in UniverseKeys
    /\ "FIN-101" \in ExtractIssueKeys(arg.response)
    /\ "FIN-101" \notin RetrievedKeys(arg.retrieved_issues)
    /\ res.valid
    /\ res.warnings # {}

\* The words of the display names.
NameWords == {"Sarah", "Chen", "Alex", "Rivera"}

\* The name an answer claims for a record: the name words that follow the
\* first "assigned to" after the identifier on its line; <<>> when there is
\* no such claim.
ClaimedName(response, key) ==
    LET n == Len(response)
        places == {a \in 1..(n - 2) :
                     /\ response[a] = "assigned" /\ response[a + 1] = "to"
                     /\ response[a + 2] \in NameWords
                     /\ \E i \in 1..(a - 1) :
                           /\ response[i] = key
                           /\ \A m \in i..a : response[m] # NL}
        a == CHOOSE x \in places : \A y \in places : x <= y
        lens == {k \in 1..(n - a - 1) :
                    \A m \in (a + 2)..(a + 1 + k) : response[m] \in NameWords}
        len == CHOOSE k \in lens : \A l \in lens : l <= k
    IN  IF places = {} THEN <<>> ELSE SubSeq(response, a + 2, a + 1 + len)

\* C20: for every retrieved record an answer mentions, a status or priority
\* value stated after the identifier that differs from the record's value,
\* or an "assigned to <Name>" claim whose name is not part of the record's
\* assignee name (always so for an unassigned record), makes the answer
\* invalid with a mismatch error for the record; a claim that states the
\* record's value gives no error.
C20_ClaimsMatchRecord ==
    (pc = "done" /\ op = "validate") =>
        \A key \in ExtractIssueKeys(arg.response) \cap RetrievedKeys(arg.retrieved_issues) :
            LET record == RecordOf(arg.retrieved_issues, key)
                name == ClaimedName(arg.response, key)
                wrong_name == \/ record.assignee = None
                              \/ ~IsInfix(LowerSeq(name), LowerSeq(Tokens(record.assignee)))
            IN  /\ \A status \in ValidStatuses :
                      ClaimedNear(arg.response, key, status) =>
                         IF Lower(status) # Lower(record.status)
                         THEN /\ ~res.valid
                              /\ Msg("Status mismatch", key, status, record.status) \in res.errors
                         ELSE \A e \in res.errors :
                                 ~(e.kind = "Status mismatch" /\ e.key = key /\ e.claimed = status)
                /\ \A priority \in ValidPriorities :
                      ClaimedNear(arg.response, key, priority) =>
                         IF Lower(priority) # Lower(record.priority)
                         THEN /\ ~res.valid
                              /\ Msg("Priority mismatch", key, priority, record.priority)
                                    \in res.errors
                         ELSE \A e \in res.errors :
                                 ~(e.kind = "Priority mismatch" /\ e.key = key
                                                                /\ e.claimed = priority)
                /\ name # <<>> =>
                      IF wrong_name
                      THEN /\ ~res.valid
                           /\ \E e \in res.errors : e.kind = "Assignee mismatch" /\ e.key = key
                      ELSE \A e \in res.errors : ~(e.kind = "Assignee mismatch" /\ e.key = key)

\* C3: a text that mentions an identifier of the PROJECT-NUMBER pattern which
\* is not in the record universe is reported invalid, the identifier is in
\* hallucinated_keys and a hallucinated-identifier error is recorded,
\* whatever the retrieved records are (none included).
C3_UnknownIdentifierFails ==
    (pc = "done" /\ op = "validate") =>
        \A i \in DOMAIN arg.response :
            (arg.response[i] \in KeyPatternTokens /\ arg.response[i] \notin UniverseKeys)
                => /\ res.valid = FALSE
                   /\ arg.response[i] \in res.hallucinated_keys
                   /\ \E e \in res.errors :
                          e.kind = "Hallucinated issue key" /\ e.key = arg.response[i]

\* C3's case: an unknown identifier after some other word, validated against
\* no records at all.
C3_Witness ==
    /\ pc = "done" /\ op = "validate"
    /\ arg.retrieved_issues = <<>>
    /\ Len(arg.response) >= 2 /\ arg.response[2] = "FAKE-999"
    /\ "FAKE-999" \in res.hallucinated_keys
    /\ res.valid = FALSE

\* The number of the count phrase that starts at token i of the text: "n
\* issues", "n tickets", "there are n", "found n", "total of n" (any letter
\* case, any white space between the words); -1 when none starts there.
CountPhraseAt(t, i) ==
    LET w(k) == Lower(TokAt(t, k))
        nxt(k) == NextNonNL(t, k + 1)
        num(k) == IF IsNumTok(w(k)) THEN NumVal(w(k)) ELSE -1
    IN  CASE IsNumTok(w(i)) /\ w(nxt(i)) \in {"issues", "tickets"} -> num(i)
          [] w(i) = "there" /\ w(nxt(i)) = "are" -> num(nxt(nxt(i)))
          [] w(i) = "found" -> num(nxt(i))
          [] w(i) = "total" /\ w(nxt(i)) = "of" -> num(nxt(nxt(i)))
          [] OTHER -> -1

\* C4: a text with a count phrase whose number differs from the number of
\* retrieved records is reported invalid with a count-mismatch error; a text
\* that mentions no identifier and whose count phrases all give the number of
\* retrieved records is reported valid.
C4_CountClaims ==
    (pc = "done" /\ op = "validate") =>
        LET t == arg.response
            size == Len(arg.retrieved_issues)
            phrases == {CountPhraseAt(t, i) : i \in DOMAIN t} \ {-1}
        IN  /\ (phrases \ {size} # {})
                => /\ res.valid = FALSE
                   /\ \E e \in res.errors : e.kind = "Count mismatch"
            /\ (phrases = {size} /\ \A i \in DOMAIN t : t[i] \notin KeyPatternTokens)
                => res.valid = TRUE

\* C4's case: "There are 2" said of one retrieved record.
C4_Witness ==
    /\ pc = "done" /\ op = "validate"
    /\ arg.response = <<"There", "are", "2">>
    /\ Len(arg.retrieved_issues) = 1
    /\ res.valid = FALSE
    /\ \E e \in res.errors : e.kind = "Count mismatch" /\ e.claimed = "2" /\ e.actual = "1"

\* ------------------------------------------------- the filter's operations

\* The record lists handed to the filter: records of the universe in any
\* order, a record possibly more than once.
FilterInputs == UNION {[1..n -> Range(issues)] : n \in 0..MaxRetrieved}

InitFilter ==
    /\ issues = MockIssues
    /\ permissions = MockPermissions
    /\ pc = "call"
    /\ res = <<>>
    /\ op = "filter_issues"
    /\ arg \in [issues : FilterInputs, user_id : UserIds]

\* permission_filter.filter_issues(issues, user_id).
\* The input records are the very objects of the record universe, so what
\* the call leaves in them is what the universe holds afterwards.
FilterIssues ==
    /\ pc = "call" /\ op = "filter_issues"
    /\ res' = filter_issues(arg.issues, arg.user_id)
    /\ arg' = [arg EXCEPT !.issues = InputAfterFilter(arg.issues, arg.user_id)]
    /\ issues' = [i \in DOMAIN issues |->
                    IF \E j \in DOMAIN arg'.issues : arg'.issues[j].key = issues[i].key
                    THEN arg'.issues[CHOOSE j \in DOMAIN arg'.issues :
                                        arg'.issues[j].key = issues[i].key]
                    ELSE issues[i]]
    /\ pc' = "done"
    /\ UNCHANGED <<permissions, op>>

\* filter_issues applied, for the same user, to the allowed list a first call
\* returned; `before` keeps the first call's input.
FilterAgain ==
    /\ pc = "done" /\ op = "filter_issues"
    /\ op' = "filter_again"
    /\ arg' = [issues |-> res.allowed_issues, user_id |-> arg.user_id,
               before |-> arg.issues]
    /\ res' = filter_issues(res.allowed_issues, arg.user_id)
    /\ pc' = "done"
    /\ UNCHANGED <<issues, permissions>>

NextFilter == FilterIssues \/ FilterAgain

SpecFilter == InitFilter /\ [][NextFilter]_vars

\* C5: filtering the allowed list of a first filter_issues call again, for
\* the same user, returns the very same records (identifiers, order, redacted
\* content) and denies none of them.
C5_FilterIdempotent ==
    (pc = "done" /\ op = "filter_again") =>
        /\ res.allowed_issues = arg.issues
        /\ res.filtered_count = 0
        /\ DOMAIN res.filter_reasons = {}

\* C5's case: a first call that denied a record and redacted the comments of
\* the one it allowed, filtered again.
C5_Witness ==
    /\ pc = "done" /\ op = "filter_again"
    /\ Len(arg.before) = 2 /\ Len(arg.issues) = 1
    /\ arg.before[2].comments # <<>>
    /\ arg.issues[1].key = arg.before[2].key
    /\ arg.issues[1].redacted /\ arg.issues[1].comments = <<>>
    /\ res.allowed_issues = arg.issues

\* The three checks of filter_issues on one record, each made on its own.
Checks(issue, user_perms) ==
    [project |-> ProjectOf(issue.key) \in user_perms.projects,
     component |-> \/ user_perms.can_view_all_issues
                   \/ \E c \in Range(GetList(issue.components)) :
                          c \in user_perms.viewable_components,
     labels |-> IF user_perms.restricted_labels = {"*"}
                THEN GetList(issue.labels) = <<>>
                ELSE \A l \in Range(GetList(issue.labels)) :
                        l \notin user_perms.restricted_labels]

\* C15: for a known user a record is allowed iff the project check, the
\* component check and the hidden-label check all pass; a denied record
\* has the reason of the first check that fails, in this order.
C15_FirstFailingCheck ==
    (pc = "done" /\ op = "filter_issues" /\ arg.user_id \in DOMAIN permissions) =>
        LET user_perms == permissions[arg.user_id]
            passes(issue) == /\ Checks(issue, user_perms).project
                             /\ Checks(issue, user_perms).component
                             /\ Checks(issue, user_perms).labels
        IN  /\ KeysOf(res.allowed_issues) = KeysOf(SelectSeq(arg.issues, passes))
            /\ \A i \in DOMAIN arg.issues :
                  LET issue == arg.issues[i]
                      c == Checks(issue, user_perms)
                  IN  IF passes(issue) THEN issue.key \notin DOMAIN res.filter_reasons
                      ELSE /\ issue.key \in DOMAIN res.filter_reasons
                           /\ res.filter_reasons[issue.key].code =
                                 (IF ~c.project THEN "no_project_access"
                                  ELSE IF ~c.component THEN "no_component_access"
                                  ELSE IF user_perms.restricted_labels = {"*"}
                                  THEN "all_labels_restricted"
                                  ELSE "restricted_labels")

\* C15 witness: records that fail two checks at once have been denied with
\* the reason of the earlier one: a record outside the user's projects that
\* carries a hidden label, and one outside the projects and the components.
C15_Witness ==
    /\ pc = "done" /\ op = "filter_issues"
    /\ \/ /\ arg.user_id = "user-003"
          /\ \E i \in DOMAIN arg.issues :
                /\ ~Checks(arg.issues[i], permissions[arg.user_id]).project
                /\ ~Checks(arg.issues[i], permissions[arg.user_id]).labels
                /\ res.filter_reasons[arg.issues[i].key] = Reason("no_project_access", {"SEC"})
       \/ /\ arg.user_id = "guest-user"
          /\ \E i \in DOMAIN arg.issues :
                /\ ~Checks(arg.issues[i], permissions[arg.user_id]).project
                /\ ~Checks(arg.issues[i], permissions[arg.user_id]).component
                /\ res.filter_reasons[arg.issues[i].key].code = "no_project_access"

\* C16: for a user whose hidden labels contain the wildcard "*", alone or
\* with other labels, filter_issues denies every record that has a label;
\* and for every user no allowed record has one of the user's hidden labels.
C16_WildcardHidesLabelled ==
    (pc = "done" /\ op = "filter_issues" /\ arg.user_id \in DOMAIN permissions) =>
        LET restricted_labels == permissions[arg.user_id].restricted_labels
        IN  \A i \in DOMAIN res.allowed_issues :
                LET issue_labels == Range(GetList(res.allowed_issues[i].labels))
                IN  /\ "*" \in restricted_labels => issue_labels = {}
                    /\ issue_labels \cap restricted_labels = {}

\* C17: filter_issues leaves its input records and the record universe as
\* they were; for a user who may not view comments every allowed record is
\* the input record with an empty comment list and the redacted mark, while
\* the input record keeps its comments and has no mark.
C17_InputUntouched ==
    (pc = "done" /\ op = "filter_issues") =>
        /\ issues = MockIssues
        /\ \A i \in DOMAIN arg.issues : arg.issues[i] \in Range(MockIssues)
        /\ (arg.user_id \in DOMAIN permissions
              /\ ~permissions[arg.user_id].can_view_comments) =>
               \A i \in DOMAIN res.allowed_issues :
                  /\ res.allowed_issues[i].comments = <<>>
                  /\ res.allowed_issues[i].redacted
                  /\ \E j \in DOMAIN arg.issues :
                        /\ ~arg.issues[j].redacted
                        /\ res.allowed_issues[i] =
                              [arg.issues[j] EXCEPT !.comments = <<>>, !.redacted = TRUE]

\* C17 witness: a record with a comment has been allowed to a user who may
\* not view comments; the clone is redacted and the input keeps the comment.
C17_Witness ==
    /\ pc = "done" /\ op = "filter_issues"
    /\ arg.user_id = "user-010"
    /\ Len(arg.issues) > 0 /\ Len(res.allowed_issues) > 0
    /\ arg.issues[1].key = res.allowed_issues[1].key
    /\ arg.issues[1].comments = <<"looks good">>
    /\ res.allowed_issues[1].comments = <<>>
    /\ res.allowed_issues[1].redacted

\* The number of records of a list whose identifier has the prefix.
CountProject(list, project) ==
    Cardinality({i \in DOMAIN list : ProjectOf(list[i].key) = project})

\* The call returned from is filter_issues for a profile whose visible
\* projects are exactly {FIN}.
FinOnlyCall ==
    /\ pc = "done" /\ op = "filter_issues"
    /\ arg.user_id \in DOMAIN permissions
    /\ permissions[arg.user_id].projects = {"FIN"}

\* C7 as stated: for a profile that sees only FIN, no SEC- record is
\* returned and filtered_count is the number of SEC- records of the input.
C7_AsStated ==
    FinOnlyCall =>
        /\ \A i \in DOMAIN res.allowed_issues :
               ProjectOf(res.allowed_issues[i].key) # "SEC"
        /\ res.filtered_count = CountProject(arg.issues, "SEC")

\* C7 amended: for a profile that sees only FIN, no SEC- record is returned;
\* filtered_count is the number of input records not returned, which is at
\* least the number of SEC- records, and exactly that number when the profile
\* has unrestricted visibility and hides no label.
C7_FinOnlyProfile ==
    FinOnlyCall =>
        /\ \A i \in DOMAIN res.allowed_issues :
               ProjectOf(res.allowed_issues[i].key) # "SEC"
        /\ res.filtered_count = Len(arg.issues) - Len(res.allowed_issues)
        /\ res.filtered_count >= CountProject(arg.issues, "SEC")
        /\ (/\ permissions[arg.user_id].can_view_all_issues
            /\ permissions[arg.user_id].restricted_labels = {})
               => res.filtered_count = CountProject(arg.issues, "SEC")

\* C7's case: a FIN-only profile with a hidden label filters a list of one
\* SEC- record and one FIN- record that carries the hidden label.
C7_Witness ==
    /\ FinOnlyCall
    /\ permissions[arg.user_id].restricted_labels = {"compliance"}
    /\ KeysOf(arg.issues) = <<"SEC-201", "FIN-101">>
    /\ res.allowed_issues = <<>>
    /\ res.filtered_count = 2

\* ----------------------------------------------- the executor's operations

\* Clauses that are combined with one another by AND.
CoreClauses ==
    {<<"project", "=", "FIN">>, <<"project", "=", "fin">>, <<"project", "=", "SEC">>,
     <<"status", "=", "'In Progress'">>, <<"status", "=", "Done">>,
     <<"assignee", "IS", "NULL">>,
     <<"labels", "=", "security">>,
     <<"labels", "IN", "(security, compliance)">>,
     <<"priority", "IN", "(High, critical)">>,
     <<"created", ">", "2024-01-10T00:00:00Z">>,
     <<"created", ">=", "-7d">>,
     <<"summary", "~", "login">>,
     <<"foo", "=", "bar">>,
     <<"status", ">", "Done">>,
     <<"status", "Done">>}

\* The four null and emptiness tests, on every mapped field and on a field
\* that is not mapped.
IsClauses ==
    UNION {{<<f, "IS", "NULL">>, <<f, "IS", "NOT", "NULL">>,
            <<f, "IS", "EMPTY">>, <<f, "IS", "NOT", "EMPTY">>} :
               f \in MappedFields \cup {"foo"}}

\* Queries that are run on their own.
OtherQueries ==
    {<<>>,
     <<"status", "=", "'in progress'">>, <<"status", "=", "In", "Progress">>,
     <<"status", "!=", "Done">>, <<"status", "=">>,
     <<"project", "=", "FIN", "AND">>, <<"AND", "project", "=", "FIN">>,
     <<"project", "=", "FIN", "AND", "AND", "status", "=", "Done">>,
     <<"project", "=", "FIN", "and", "status", "=", "'Done'">>,
     <<"project", "=", "'FIN'", "extra">>, <<"project", "!=", "FIN">>,
     <<"project", "IN", "(FIN)">>, <<"project", "in", "(fin)">>,
     <<"project", "NOT", "IN", "(FIN)">>, <<"project", "IN", "FIN">>,
     <<"status", "IN", "(Done)">>, <<"status", "IN", "(done)">>,
     <<"status", "NOT", "IN", "(done)">>, <<"status", "IN", "(In Progress)">>,
     <<"labels", "!=", "security">>, <<"labels", "NOT", "IN", "(security)">>,
     <<"labels", "~", "sec">>, <<"components", "~", "front">>,
     <<"components", "=", "Frontend">>, <<"components", "=", "frontend">>,
     <<"assignee", "=", "none">>, <<"assignee", "=", "'Sarah Chen'">>,
     <<"assignee", "~", "sarah">>, <<"assignee", "is", "not", "null">>,
     <<"key", "=", "FIN-101">>, <<"key", "~", "fin-10">>,
     <<"type", "=", "Bug">>, <<"issuetype", "=", "bug">>,
     <<"description", "~", "audit">>, <<"summary", "~", "login", "'x'">>,
     <<"created", ">", "banana">>, <<"created", ">", "-1m">>,
     <<"created", "<", "2024-01-10">>, <<"created", ">", "-2h">>,
     <<"updated", "<=", "2024-01-12T10:00:00Z">>, <<"updated", "<", "-1w">>,
     <<"updated", ">=", "2024-01-05T10:00:00+00:00">>,
     <<"created", "=", "2024-01-10T10:00:00Z">>,
     <<"priority", ">", "High">>}

\* What may follow the clauses.
CoreSuffixes ==
    {<<>>, <<"ORDER", "BY", "priority", "DESC">>, <<"ORDER", "BY", "key">>}

OtherSuffixes ==
    CoreSuffixes \cup
    {<<"ORDER", "BY", "created", "ASC">>, <<"order", "by", "status", "desc">>,
     <<"ORDER", "BY", "updated", "descending">>, <<"ORDER", "BY", "foo", "DESC">>,
     <<"ORDER", "BY", "FIN-101", "desc">>, <<"ORDER", "BY">>, <<"ORDER", "priority">>,
     <<"ORDER", "BY", "priority">>,
     <<"ORDER", "BY", "priority", "AND", "project", "=", "SEC">>}

\* The AND-joins of n core clauses.
RECURSIVE Joins(_)
Joins(n) ==
    IF n = 1 THEN CoreClauses
    ELSE {q \o <<"AND">> \o c : q \in Joins(n - 1), c \in CoreClauses}

\* The structured queries a run may execute.
Queries ==
    {q \o x : q \in UNION {Joins(n) : n \in 1..MaxClauses}, x \in CoreSuffixes}
    \cup {q \o x : q \in IsClauses \cup OtherQueries, x \in OtherSuffixes}

\* A collection with a record whose priority is none of the four that
\* priority_order knows.
OddPriorityIssues ==
    <<MockIssues[1], [MockIssues[4] EXCEPT !.priority = "urgent"], MockIssues[5]>>

InitJQL ==
    /\ issues \in Universes \cup {OddPriorityIssues}
    /\ permissions = MockPermissions
    /\ pc = "call"
    /\ res = <<>>
    /\ op = "execute"
    /\ arg \in [jql : Queries]

\* jql_executor.execute(jql).
Execute ==
    /\ pc = "call" /\ op = "execute"
    /\ res' = execute(arg.jql)
    /\ pc' = "done"
    /\ UNCHANGED <<issues, permissions, op, arg>>

NextJQL == Execute

SpecJQL == InitJQL /\ [][NextJQL]_vars

\* The values of the clauses `project = <value>` of a query: a clause starts
\* the query or follows an AND, stands before any ORDER, and ends the query or
\* is followed by an AND or by ORDER.
ProjectEqualityValues(t) ==
    {Unquote(t[i + 2]) : i \in {j \in 1..(Len(t) - 2) :
        /\ Lower(t[j]) = "project" /\ t[j + 1] = "="
        /\ (j = 1 \/ Lower(t[j - 1]) = "and")
        /\ \A m \in 1..j : Lower(t[m]) # "order"
        /\ (j + 2 = Len(t) \/ Lower(TokAt(t, j + 3)) \in {"and", "order"})}}

\* C8 as stated: every record returned for a query with a clause
\* `project = v` has the project code v.
C8_AsStated ==
    (pc = "done" /\ op = "execute") =>
        \A v \in ProjectEqualityValues(arg.jql) : \A i \in DOMAIN res.issues :
            ProjectOf(res.issues[i].key) = v

\* C8 amended: every record returned for a query with a clause `project = v`
\* (alone or joined by AND with other clauses) has a project code equal to v
\* compared case-insensitively; no record of another project is returned.
C8_ProjectEquality ==
    (pc = "done" /\ op = "execute") =>
        \A v \in ProjectEqualityValues(arg.jql) : \A i \in DOMAIN res.issues :
            Lower(ProjectOf(res.issues[i].key)) = Lower(v)

\* C8's case: a lower-case project value joined with a status clause, over
\* records of both projects with that status.
C8_Witness ==
    /\ pc = "done" /\ op = "execute"
    /\ arg.jql = <<"project", "=", "fin", "AND", "status", "=", "Done">>
    /\ KeysOf(issues) = <<"FIN-101", "SEC-201", "FIN-10">>
    /\ KeysOf(res.issues) = <<"FIN-10">>

FieldAbsent(r, f) ==
    CASE f = "labels" -> r.labels = MissingList
      [] f = "components" -> r.components = MissingList
      [] f = "description" -> r.description \in {None, Missing}
      [] f = "resolution" -> r.resolution \in {None, Missing}
      [] f = "sprint" -> r.sprint \in {None, Missing}
      [] f = "assignee" -> r.assignee = None
      [] f = "reporter" -> r.reporter = None
      [] OTHER -> FALSE

\* The field is absent, an empty string or an empty set.
FieldEmpty(r, f) ==
    \/ FieldAbsent(r, f)
    \/ f = "labels" /\ r.labels = <<>>
    \/ f = "components" /\ r.components = <<>>
    \/ f = "description" /\ r.description = ""

\* C10: for every mapped field, IS NULL returns exactly the records in which
\* the field is absent, IS EMPTY exactly those in which it is absent, an
\* empty string or an empty set, and IS NOT NULL and IS NOT EMPTY the exact
\* complements.
C10_NullAndEmpty ==
    (pc = "done" /\ op = "execute") =>
        \A f \in MappedFields :
            /\ arg.jql = <<f, "IS", "NULL">>
                   => res.issues = SelectSeq(issues, LAMBDA r : FieldAbsent(r, f))
            /\ arg.jql = <<f, "IS", "NOT", "NULL">>
                   => res.issues = SelectSeq(issues, LAMBDA r : ~FieldAbsent(r, f))
            /\ arg.jql = <<f, "IS", "EMPTY">>
                   => res.issues = SelectSeq(issues, LAMBDA r : FieldEmpty(r, f))
            /\ arg.jql = <<f, "IS", "NOT", "EMPTY">>
                   => res.issues = SelectSeq(issues, LAMBDA r : ~FieldEmpty(r, f))

\* ---------------------------------------------- the orchestrator's operations

\* The natural-language queries handed to process_query.
NaturalQueries ==
    {<<>>,
     <<"hi">>,
     <<"Show", "all", "issues">>,
     <<"Show", "all", "critical", "priority", "issues">>,
     <<"How", "many", "critical", "priority", "issues", "are", "there?">>,
     <<"FIN", "issues">>,
     <<"how", "many", "FIN", "issues">>,
     <<"login">>,
     <<"issues", "related", "to", "login">>,
     <<"unassigned", "bugs">>,
     <<"issues", "assigned", "to", "Sarah", "Chen">>,
     <<"FIN", "issues", "about", "login">>,
     <<"done", "tasks", "about", "audit">>,
     <<"label", "security">>,
     <<"what", "issues", "are", "blocked?">>,
     <<"total", "security", "compliance">>,
     <<"slow", "oauth", "login">>,
     <<"find", "SEC", "issues", "like", "audit">>,
     <<"find", "FIN", "bugs", "like", "login">>,
     <<"Sarah", "Chen">>,
     <<"login", "issues", "in", "FIN-101">>,
     <<"how", "many", "FIN", "issues", "about", "login">>,
     <<"count", "issues", "like", "audit">>}

\* The filters and free-text queries handed to _execute_hybrid: those classify
\* makes of the hybrid queries above, and a filter that does not parse.
HybridInputs ==
    {[jql_filter |-> <<"project", "=", "FIN">>,
      semantic_query |-> <<"issues", "about", "login">>],
     [jql_filter |-> <<"status", "=", "'Done'", "AND", "type", "=", "Task">>,
      semantic_query |-> <<"s", "about", "audit">>],
     [jql_filter |-> <<"status", "=", "'Blocked'">>,
      semantic_query |-> <<"what", "issues", "are", "?">>],
     [jql_filter |-> <<"project", "=", "SEC">>,
      semantic_query |-> <<"find", "issues", "like", "audit">>],
     [jql_filter |-> <<"project", "=", "FIN", "AND", "type", "=", "Bug">>,
      semantic_query |-> <<"d", "s", "like", "login">>],
     [jql_filter |-> <<"project">>, semantic_query |-> <<"login">>]}

InitOrchestrator ==
    /\ issues \in Universes
    /\ permissions = MockPermissions
    /\ pc = "call"
    /\ res = <<>>
    /\ \/ /\ op = "process_query"
          /\ arg \in [query : NaturalQueries, user_id : UserIds]
       \/ /\ op = "filter_issues"
          /\ arg \in [issues : FilterInputs, user_id : UserIds]
       \/ /\ op = "execute_hybrid"
          /\ arg \in HybridInputs

\* orchestrator._execute_hybrid(jql_filter, semantic_query).
ExecuteHybrid ==
    /\ pc = "call" /\ op = "execute_hybrid"
    /\ res' = execute_hybrid(arg.jql_filter, arg.semantic_query)
    /\ pc' = "done"
    /\ UNCHANGED <<issues, permissions, op, arg>>

\* orchestrator.process_query(query, user_id).
ProcessQuery ==
    /\ pc = "call" /\ op = "process_query"
    /\ res' = process_query(arg.query, arg.user_id)
    /\ pc' = "done"
    /\ UNCHANGED <<issues, permissions, op, arg>>

NextOrchestrator == ProcessQuery \/ FilterIssues \/ ExecuteHybrid

SpecOrchestrator == InitOrchestrator /\ [][NextOrchestrator]_vars

\* C2: the answer text of a successful response of process_query that is not a
\* request for clarification passes validate against the records returned in
\* the same response.
C2_AnswerValidates ==
    (pc = "done" /\ op = "process_query" /\ res.success
                 /\ res.query_mode # "clarification") =>
        validate(res.answer, res.issues).valid

\* An identity the permission table does not hold, or one it holds with an
\* empty project set.
DeniedIdentity(user_id) ==
    \/ user_id \notin DOMAIN permissions
    \/ permissions[user_id].projects = {}

\* C6: for an identity that is not in the permission table or that has an
\* empty project set, filter_issues returns no allowed record and denies every
\* record of its input, and process_query answers with total_count = 0 and no
\* record.
C6_DeniedIdentities ==
    (pc = "done" /\ op \in {"filter_issues", "process_query"}
                 /\ DeniedIdentity(arg.user_id)) =>
        IF op = "filter_issues"
        THEN /\ res.allowed_issues = <<>>
             /\ res.filtered_count = Len(arg.issues)
             /\ \A i \in DOMAIN arg.issues :
                    /\ arg.issues[i].key \in DOMAIN res.filter_reasons
                    /\ res.filter_reasons[arg.issues[i].key] # Allowed
        ELSE /\ res.total_count = 0
             /\ res.issues = <<>>

\* C6 witness: process_query has answered such an identity after its retrieval
\* had found records, all of which the filter has hidden.
C6_Witness ==
    /\ pc = "done" /\ op = "process_query"
    /\ DeniedIdentity(arg.user_id)
    /\ res.success /\ res.query_mode # "clarification"
    /\ res.debug_info.permission_filter.before > 0
    /\ res.debug_info.permission_filter.filtered = res.debug_info.permission_filter.before
    /\ res.total_count = 0

\* The place of a key in a record list, 0 when it is not there.
Place(list, key) ==
    IF \E i \in DOMAIN list : list[i].key = key
    THEN CHOOSE i \in DOMAIN list : list[i].key = key ELSE 0

\* C12: _execute_hybrid returns exactly the records of the structured filter,
\* each once; those the ranked retrieval has surfaced come first, in ranked
\* order, the others follow in the order of the filter; when the filter
\* returns nothing the result is empty and the ranked retrieval has not run.
C12_HybridGate ==
    (pc = "done" /\ op = "execute_hybrid" /\ ~res.raised) =>
        LET jql_issues == execute(arg.jql_filter).issues
            ranked == search(arg.semantic_query, Len(jql_issues), MinScore).issues
            surfaced(i) == Place(ranked, res.issues[i].key) > 0
        IN  /\ Len(res.issues) = Len(jql_issues)
            /\ RetrievedKeys(res.issues) = RetrievedKeys(jql_issues)
            /\ \A i \in DOMAIN res.issues : res.issues[i] \in Range(jql_issues)
            /\ \A i, j \in DOMAIN res.issues :
                  i < j =>
                    /\ surfaced(j) => surfaced(i)
                    /\ surfaced(j) => Place(ranked, res.issues[i].key)
                                        < Place(ranked, res.issues[j].key)
                    /\ ~surfaced(i) => Place(jql_issues, res.issues[i].key)
                                         < Place(jql_issues, res.issues[j].key)
            /\ jql_issues = <<>> => (res.issues = <<>> /\ ~res.searched)

\* C12 witness: a hybrid retrieval whose ranking has moved a record of the
\* filter to the front and has left another record of the filter out.
C12_Witness ==
    /\ pc = "done" /\ op = "execute_hybrid" /\ ~res.raised /\ res.searched
    /\ Len(res.issues) >= 2
    /\ res.issues # execute(arg.jql_filter).issues
    /\ \E i \in DOMAIN res.issues :
           Place(search(arg.semantic_query, Len(res.issues), MinScore).issues, res.issues[i].key) = 0

\* C11: a classification in "jql" mode carries no free-text query and one in
\* "semantic" mode carries no structured query; the count query "How many
\* critical priority issues are there?" is classified "jql" with the query
\* priority = Critical.
C11_ModeSeparation ==
    (pc = "done" /\ op = "process_query") =>
        LET classification == res.debug_info.classification
        IN  /\ classification.mode = "jql" =>
                 /\ classification.semantic_query = NoText
                 /\ classification.jql_query # NoText
            /\ classification.mode = "semantic" =>
                 /\ classification.jql_query = NoText
                 /\ classification.hybrid_jql_filter = NoText
            /\ arg.query = <<"How", "many", "critical", "priority", "issues", "are", "there?">>
                 => /\ classification.mode = "jql"
                    /\ classification.jql_query = <<"priority", "=", "Critical">>

\* C11 witness: the count query about the critical priority has been
\* classified, and answered from the structured query.
C11_Witness ==
    /\ pc = "done" /\ op = "process_query"
    /\ arg.query = <<"How", "many", "critical", "priority", "issues", "are", "there?">>
    /\ res.query_mode = "jql"
    /\ res.jql_used = <<"priority", "=", "Critical">>
    /\ res.semantic_query = NoText

\* What classify detects in a query: too short, structured fields, free-text
\* indicators, count intent.
Detected(query) ==
    [short |-> query = <<>> \/ (Len(query) = 1 /\ StrLen(Lower(query[1])) < 3),
     fields |-> \E f \in {"project", "status", "priority", "type", "assignee", "labels"} :
                    ExtractJqlFields(query)[f] # None
                \/ ExtractJqlFields(query).assignee_null,
     indicators |-> HasSemanticPatterns(LowerSeq(query)),
     count |-> IsCountQuery(LowerSeq(query))]

C18_ValidationAfterFilter ==
    (pc = "done" /\ op = "process_query" /\ res.success
                 /\ res.query_mode # "clarification") =>
        LET classification == res.debug_info.classification
            allowed == filter_issues(Retrieve(classification).issues,
                                     arg.user_id).allowed_issues
            answer == generate_answer(arg.query, allowed, classification.mode)
            passed == validate(answer, allowed).valid
        IN  /\ res.issues = allowed
            /\ res.validation_passed = passed
            /\ res.debug_info.validation.passed = passed
            /\ passed => res.answer = answer
            /\ ~passed => res.answer = create_grounded_response(allowed, "list", TRUE).text

\* C18 witness: the generated answer has failed the validation against the
\* filtered records, some records being hidden, and the response carries the
\* list rendering.
C18_Witness ==
    /\ pc = "done" /\ op = "process_query" /\ res.success
    /\ res.query_mode # "clarification"
    /\ ~res.validation_passed
    /\ res.debug_info.fallback_to_grounded
    /\ res.debug_info.permission_filter.filtered > 0
    /\ res.issues # <<>>
    /\ res.answer = create_grounded_response(res.issues, "list", TRUE).text

\* The clauses of a structured query: the parts that AND separates, of what
\* stands before ORDER BY, the empty ones left out.
ClausesOf(jql) ==
    LET found == OrderMatches(jql)
        start == IF found = {} THEN Len(jql) + 1
                 ELSE CHOOSE i \in found : \A j \in found : i <= j
    IN  SelectSeq(SplitFrom(SubSeq(jql, 1, start - 1), 1, <<>>), LAMBDA c : c # <<>>)

\* The clause has one of the forms: field IN (...), field NOT IN (...),
\* field IS [NOT] NULL, field IS [NOT] EMPTY, field ~ value, field <op> value.
HasClauseForm(c) ==
    LET w == [k \in 1..4 |-> Lower(TokAt(c, k))]
    IN  /\ IsWord(c[1])
        /\ \/ w[2] = "in" /\ TokAt(c, 3) \in ListTokens
           \/ w[2] = "not" /\ w[3] = "in" /\ TokAt(c, 4) \in ListTokens
           \/ w[2] = "is" /\ w[3] \in {"null", "empty"}
           \/ w[2] = "is" /\ w[3] = "not" /\ w[4] \in {"null", "empty"}
           \/ /\ w[2] \in {"~", "!=", ">=", "<=", "=", ">", "<"}
              /\ Len(c) >= 3

\* C21: when a clause of the query has none of the clause forms, execute
\* returns success = FALSE, no record, total_count = 0 and the error that
\* names the first such clause, whatever the other clauses are.
C21_ParseFailsFast ==
    (pc = "done" /\ op = "execute") =>
        LET clauses == ClausesOf(arg.jql)
            bad == {k \in DOMAIN clauses : ~HasClauseForm(clauses[k])}
            first == CHOOSE k \in bad : \A l \in bad : k <= l
        IN  bad # {} =>
              /\ res.success = FALSE
              /\ res.issues = <<>>
              /\ res.total_count = 0
              /\ res.error = <<"Unable to parse JQL clause", JoinStr(clauses[first])>>

\* C21 witness: a query whose first clause alone would return a record and
\* whose second clause has no form has been refused.
C21_Witness ==
    /\ pc = "done" /\ op = "execute"
    /\ arg.jql = <<"project", "=", "FIN", "AND", "status", "Done">>
    /\ \E i \in DOMAIN issues : ProjectOf(issues[i].key) = "FIN"
    /\ res.success = FALSE /\ res.issues = <<>>
    /\ res.error = <<"Unable to parse JQL clause", "status Done">>

\* The condition leaves every record in: its field is not a mapped one, or
\* it compares a timestamp with an operand that is no date.
IsNoOp(condition) ==
    \/ condition.field \notin MappedFields
    \/ /\ condition.field \in {"created", "updated"}
       /\ condition.operator \in {">", "<", ">=", "<="}
       /\ condition.value \in {"banana", "-1m"}

\* C22: a condition on an unrecognized field, and a timestamp comparison
\* whose operand is not a date, change nothing: the query succeeds or fails
\* as it does without the condition and returns the same records in the same
\* order.
C22_NoOpConditions ==
    (pc = "done" /\ op = "execute" /\ ParseJql(arg.jql).error = <<>>) =>
        LET parsed == ParseJql(arg.jql)
            kept == SelectSeq(parsed.conditions, LAMBDA c : ~IsNoOp(c))
            without == JqlFilterIssues(issues, kept)
        IN  /\ res.success = ~without.raised
            /\ res.success =>
                 res.issues = IF parsed.order_by = NoOrder THEN without.issues
                              ELSE ApplyOrdering(without.issues, parsed.order_by)

\* C22 witness: a query with a condition on an unknown field has returned the
\* records of the other condition, not all and not none; and a comparison of
\* created with a word has returned every record.
C22_Witness ==
    /\ pc = "done" /\ op = "execute" /\ res.success
    /\ \/ /\ arg.jql = <<"foo", "=", "bar", "AND", "project", "=", "FIN">>
          /\ res.issues # <<>> /\ Len(res.issues) < Len(issues)
       \/ /\ arg.jql = <<"created", ">", "banana">>
          /\ res.issues = issues

\* The instant an operand of a timestamp comparison stands for, in hours
\* since 2024-01-01T00:00: the timestamp itself, or now minus the offset.
Instant(value) ==
    CASE value = "-7d" -> Now - 7 * 24
      [] value = "-1w" -> Now - 7 * 24
      [] value = "-2h" -> Now - 2
      [] value \in {"2024-01-10", "2024-01-10T00:00:00Z"} -> 216
      [] value = "2024-01-12T10:00:00Z" -> 274
      [] value = "2024-01-05T10:00:00+00:00" -> 106
      [] OTHER -> -1

\* C23: a comparison of created or updated with an absolute timestamp or
\* with a relative offset in hours, days or weeks succeeds and returns
\* exactly the records whose timestamp satisfies the comparison with that
\* instant.
C23_TimestampComparison ==
    (/\ pc = "done" /\ op = "execute" /\ Len(arg.jql) = 3
     /\ arg.jql[1] \in {"created", "updated"}
     /\ arg.jql[2] \in {">", "<", ">=", "<="}
     /\ Instant(arg.jql[3]) >= 0) =>
        LET at(r) == FromIsoFormat(FieldValue(r, arg.jql[1])).t
            instant == Instant(arg.jql[3])
            holds(r) == CASE arg.jql[2] = ">" -> at(r) > instant
                          [] arg.jql[2] = "<" -> at(r) < instant
                          [] arg.jql[2] = ">=" -> at(r) >= instant
                          [] arg.jql[2] = "<=" -> at(r) <= instant
        IN  /\ res.success
            /\ res.issues = SelectSeq(issues, holds)

\* The rank of a record under a sort field: the severity rank of the
\* priority, an unknown priority after Low; the place of the raw value in
\* string order for created, updated, key and status; one rank for all
\* records under any other field.
OrderRank(r, field) ==
    CASE field = "priority" ->
             (IF \E n \in 1..4 : <<"Critical", "High", "Medium", "Low">>[n] = r.priority
              THEN CHOOSE n \in 1..4 : <<"Critical", "High", "Medium", "Low">>[n] = r.priority
              ELSE 5)
      [] field \in {"created", "updated", "key", "status"} -> StrRank(FieldValue(r, field))
      [] OTHER -> 0

\* C24: the result of a query with ORDER BY holds the filtered records, each
\* once; they stand in rising rank, in falling rank under DESC; records of
\* equal rank keep the order they have in the filtered list; a directive
\* that ends with its field sorts ascending.
C24_OrderedResult ==
    (/\ pc = "done" /\ op = "execute" /\ res.success
     /\ ParseJql(arg.jql).order_by # NoOrder) =>
        LET parsed == ParseJql(arg.jql)
            field == parsed.order_by.field
            filtered == JqlFilterIssues(issues, parsed.conditions).issues
            n == Len(res.issues)
        IN  /\ n = Len(filtered)
            /\ Range(res.issues) = Range(filtered)
            /\ res.total_count = n
            /\ \A i \in 1..n : \A j \in (i + 1)..n :
                  LET a == OrderRank(res.issues[i], field)
                      b == OrderRank(res.issues[j], field)
                  IN  /\ IF parsed.order_by.direction = "DESC" THEN a >= b ELSE a <= b
                      /\ a = b => Place(filtered, res.issues[i].key)
                                     < Place(filtered, res.issues[j].key)
            /\ Lower(arg.jql[Len(arg.jql) - 1]) = "by" => parsed.order_by.direction = "ASC"

\* C24 witness: ORDER BY priority without a direction over a collection of
\* two High records and one of unknown priority between them: the High
\* records come first in their order, the unknown one last.
C24_Witness ==
    /\ pc = "done" /\ op = "execute" /\ res.success
    /\ issues = OddPriorityIssues
    /\ arg.jql = <<"foo", "IS", "NULL", "ORDER", "BY", "priority">>
    /\ KeysOf(res.issues) = <<"FIN-101", "SEC-202", "FIN-102">>

\* C30: for a scalar field and one value v, in any letter case, field IN (v)
\* returns the records of field = v, and field NOT IN (v) those of
\* field != v.
C30_InIsEquality ==
    (/\ pc = "done" /\ op = "execute" /\ res.success
     /\ Len(ParseJql(arg.jql).conditions) = 1
     /\ ParseJql(arg.jql).order_by = NoOrder
     /\ ParseJql(arg.jql).conditions[1].operator \in {"IN", "NOT IN"}
     /\ Len(ParseJql(arg.jql).conditions[1].values) = 1
     /\ ParseJql(arg.jql).conditions[1].field \in MappedFields \ ListFields) =>
        LET condition == ParseJql(arg.jql).conditions[1]
            v == condition.values[1]
            same == Condition(condition.field,
                              IF condition.operator = "IN" THEN "=" ELSE "!=",
                              <<>>, v, Lower(v), v)
        IN  res.issues = SelectSeq(issues, LAMBDA r : MatchesCondition(r, same))

\* ------------------------------------------- the ranked retrieval's operations

\* Largest top_k handed to search and find_similar.
MaxTopK == 3

\* The free-text queries handed to search; the first two leave no token.
SearchQueries ==
    {<<>>, <<"how", "are", "the">>, <<"login">>, <<"audit">>,
     <<"slow", "oauth", "login">>, <<"security", "compliance">>,
     <<"Sarah", "Chen">>, <<"FIN", "issues">>, <<"done", "task", "security">>,
     <<"login", "issues", "in", "FIN-101">>}

\* The min_score values handed to search (0, the default 0.1, 0.5), in
\* ten-thousandths.
MinScores == {0, MinScore, 5 * MinScore}

\* The identifiers handed to find_similar; the last is in no collection.
SimilarKeys == {"FIN-101", "SEC-201", "FIN-10", "FIN-102", "SEC-202", "FAKE-999"}

\* A collection with two records that duplicate and cite each other: the
\* second is a clone of the first, and each names the other in a comment.
CrossLinkedIssues ==
    <<[MockIssues[1] EXCEPT !.comments = <<"FIN-102">>],
      [MockIssues[1] EXCEPT !.key = "FIN-102", !.comments = <<"FIN-101">>],
      MockIssues[5]>>

InitSearch ==
    /\ issues \in Universes \cup {CrossLinkedIssues}
    /\ permissions = MockPermissions
    /\ pc = "call"
    /\ res = <<>>
    /\ \/ /\ op = "search"
          /\ arg \in [query : SearchQueries, top_k : 0..MaxTopK, min_score : MinScores]
       \/ /\ op = "find_similar"
          /\ arg \in [issue_key : SimilarKeys, top_k : 0..MaxTopK]

\* semantic_search.search(query, top_k, min_score).
Search ==
    /\ pc = "call" /\ op = "search"
    /\ res' = search(arg.query, arg.top_k, arg.min_score)
    /\ pc' = "done"
    /\ UNCHANGED <<issues, permissions, op, arg>>

\* semantic_search.find_similar(issue_key, top_k).
FindSimilar ==
    /\ pc = "call" /\ op = "find_similar"
    /\ res' = find_similar(arg.issue_key, arg.top_k)
    /\ pc' = "done"
    /\ UNCHANGED <<issues, permissions, op, arg>>

NextSearch == Search \/ FindSimilar

SpecSearch == InitSearch /\ [][NextSearch]_vars

\* The score of every record of the collection for a query, in
\* ten-thousandths.
ScoresOf(query) ==
    [i \in DOMAIN issues |->
        CalculateSimilarity(Tokenize(query), doc_tokens[i], CalculateIdf(doc_tokens))]

\* C25: search returns at most top_k records, each with a score of at least
\* min_score, by falling score, records of equal score in the order of the
\* collection; no record that reaches min_score and scores higher than a
\* returned one is left out, and fewer than top_k are returned only when no
\* other record reaches min_score; a query without tokens returns success =
\* TRUE, no record and a diagnostic.
C25_RankedSearch ==
    (pc = "done" /\ op = "search") =>
        IF Tokenize(arg.query) = <<>>
        THEN /\ res.success /\ res.issues = <<>> /\ res.total_count = 0
             /\ res.error = "Query produced no searchable terms"
        ELSE LET scores == ScoresOf(arg.query)
                 n == Len(res.issues)
                 at(p) == Place(issues, res.issues[p].key)
                 out == {i \in DOMAIN issues :
                            /\ scores[i] >= arg.min_score
                            /\ \A p \in 1..n : at(p) # i}
             IN  /\ res.success
                 /\ n <= arg.top_k
                 /\ \A p \in 1..n : at(p) # 0 /\ scores[at(p)] >= arg.min_score
                 /\ \A p \in 1..n : \A q \in (p + 1)..n :
                       \/ scores[at(p)] > scores[at(q)]
                       \/ scores[at(p)] = scores[at(q)] /\ at(p) < at(q)
                 /\ \A i \in out : \A p \in 1..n : scores[i] <= scores[at(p)]
                 /\ out # {} => n = arg.top_k

\* C25 witness: a search has cut its result to top_k, leaving out a record
\* that reaches min_score, and has left out another that does not reach it.
C25_Witness ==
    /\ pc = "done" /\ op = "search" /\ res.success
    /\ Len(res.issues) = arg.top_k /\ arg.top_k > 0
    /\ \E i \in DOMAIN issues :
          /\ ScoresOf(arg.query)[i] >= arg.min_score
          /\ Place(res.issues, issues[i].key) = 0
    /\ \E i \in DOMAIN issues :
          /\ ScoresOf(arg.query)[i] > 0
          /\ ScoresOf(arg.query)[i] < arg.min_score

\* C26: find_similar returns at most top_k records, the source record never
\* among them; for an identifier that is not in the index it returns
\* success = FALSE, no record and the error that names the identifier.
C26_FindSimilar ==
    (pc = "done" /\ op = "find_similar") =>
        /\ Len(res.issues) <= arg.top_k
        /\ \A p \in DOMAIN res.issues : res.issues[p].key # arg.issue_key
        /\ \A p \in DOMAIN res.issues : res.issues[p] \in Range(issues)
        /\ IF arg.issue_key \in UniverseKeys THEN res.success
           ELSE /\ res.success = FALSE
                /\ res.issues = <<>>
                /\ res.error = "Issue " \o arg.issue_key \o " not found"

\* C26 witness: find_similar has returned a record for a source that the
\* search ranks first; and it has refused an unknown identifier.
C26_Witness ==
    /\ pc = "done" /\ op = "find_similar"
    /\ arg.issue_key \in UniverseKeys
    /\ arg.top_k = 1
    /\ Len(res.issues) = 1
    /\ Place(SearchTokens(doc_tokens[Place(issues, arg.issue_key)], <<>>, 2, MinScore).issues,
             arg.issue_key) = 1

\* C29: in every result of search and of find_similar the keys of
\* relevance_scores are the identifiers of the returned records, and
\* total_count is the number of returned records.
C29_ScoresMatchRecords ==
    (pc = "done" /\ op \in {"search", "find_similar"}) =>
        /\ DOMAIN res.relevance_scores = {res.issues[p].key : p \in DOMAIN res.issues}
        /\ res.total_count = Len(res.issues)

\* The filter's decision on a record for a user; every record is denied to a
\* user without a profile.
AllowedFor(issue, user_id) ==
    /\ user_id \in DOMAIN permissions
    /\ Decision(issue, permissions[user_id]) = Allowed

\* The codes of the filter's denial reasons.
DenialCodes ==
    {"no_project_access", "no_component_access", "all_labels_restricted",
     "restricted_labels", "unknown_user"}

\* The words of a list of texts.
WordsOf(texts) == UNION {Range(texts[i]) : i \in DOMAIN texts}

\* C27: in a response of process_query that has retrieved records, every
\* record of the issue list is one the filter allows to the user (as the
\* filter copies it), total_count is the length of the list, the answer is
\* the generated or the list rendering of the allowed records, the response
\* the caller receives names in its records, answer, warnings and errors no
\* retrieved record that was denied and no denial reason, and the warnings are the one warning with the number of
\* denied records if a retrieved record was denied, and empty otherwise.
C27_DeniedNeverReachCaller ==
    (pc = "done" /\ op = "process_query" /\ res.success
                 /\ res.query_mode # "clarification") =>
        LET classification == res.debug_info.classification
            retrieved == Retrieve(classification).issues
            denied == {i \in DOMAIN retrieved : ~AllowedFor(retrieved[i], arg.user_id)}
            deniedKeys == {retrieved[i].key : i \in denied}
            shown == to_dict(res)
            words == Range(shown.answer) \cup WordsOf(shown.warnings)
                        \cup WordsOf(shown.errors)
        IN  /\ \A p \in DOMAIN res.issues :
                  \E i \in DOMAIN retrieved \ denied :
                      res.issues[p] = FilteredCopy(retrieved[i], permissions[arg.user_id])
            /\ res.total_count = Len(res.issues)
            /\ res.answer \in
                  {generate_answer(arg.query, res.issues, classification.mode),
                   create_grounded_response(res.issues, "list", TRUE).text}
            /\ \A p \in DOMAIN shown.issues : shown.issues[p].key \notin deniedKeys
            /\ words \cap deniedKeys = {}
            /\ words \cap DenialCodes = {}
            /\ DOMAIN shown = {"success", "answer", "issues", "total_count",
                               "query_mode", "jql_used", "semantic_query",
                               "validation_passed", "errors", "warnings"}
            /\ DOMAIN res.debug_info.permission_filter = {"before", "after", "filtered"}
            /\ res.warnings =
                  IF denied = {} THEN <<>>
                  ELSE << <<NumTok(Cardinality(denied)), "issue", "(s)", "hidden",
                            "due", "to", "permissions">> >>

\* C27 witness: process_query has retrieved records of which the filter has
\* denied one and allowed another, and the response lists the allowed ones
\* with the warning.
C27_Witness ==
    /\ pc = "done" /\ op = "process_query" /\ res.success
    /\ res.issues # <<>>
    /\ res.warnings # <<>>
    /\ \E i \in DOMAIN issues :
          /\ ~AllowedFor(issues[i], arg.user_id)
          /\ issues[i] \in Range(Retrieve(res.debug_info.classification).issues)
          /\ issues[i].key \notin Range(res.answer)

\* ------------------------------------------------ two queries side by side

\* process_query(query, user_id) as a call.
Call(query, user_id) == [query |-> query, user_id |-> user_id]

\* The pairs of calls of process_query that run side by side.
ConcurrentCalls ==
    {<<Call(<<"FIN", "issues">>, "user-010"), Call(<<"FIN", "issues">>, "user-001")>>,
     <<Call(<<"FIN", "issues">>, "user-010"), Call(<<"FIN", "issues">>, "user-010")>>,
     <<Call(<<"hi">>, "user-001"), Call(<<"FIN", "issues">>, "user-010")>>,
     <<Call(<<"find", "SEC", "issues", "like", "audit">>, "user-012"),
       Call(<<"FIN", "issues">>, "user-010")>>,
     <<Call(<<"Show", "all", "issues">>, "unknown-hacker"),
       Call(<<"find", "SEC", "issues", "like", "audit">>, "user-012")>>,
     <<Call(<<"Show", "all", "issues">>, "user-010"),
       Call(<<"Show", "all", "issues">>, "unknown-hacker")>>}

\* The two callers.
Callers == {1, 2}

\* What a query holds of its own before a step has filled it in.
Pending == <<>>

\* A variant in which the retrieval keeps the matching records as the
\* universe.
UniverseAfterRetrieveKeepsMatches(classification) ==
    IF Retrieve(classification).raised THEN issues
    ELSE SelectSeq(issues, LAMBDA r : Place(Retrieve(classification).issues, r.key) # 0)

\* The record universe when a retrieval returns: _filter_issues builds a new
\* list of the matching records for every condition (without conditions it
\* hands out self.issues, which no later step writes to), _apply_ordering
\* sorts into a new list and search collects the records into a new list;
\* self.issues is only read.
UniverseAfterRetrieve(classification) == issues

\* The records a query's list refers to: the list holds the universe's own
\* records, not copies.
Referred(list) == [i \in DOMAIN list |-> issues[Place(issues, list[i].key)]]

InitConcurrent ==
    /\ issues \in {u \in Universes : Len(u) = MaxIssues}
    /\ permissions = MockPermissions
    /\ op = "process_query"
    /\ arg \in ConcurrentCalls
    /\ pc = [t \in Callers |-> "call"]
    /\ res = [t \in Callers |->
                [classification |-> Pending, retrieved |-> Pending,
                 filter_result |-> Pending, response |-> Pending]]

\* The end of steps 1 to 3 for caller t: a query that needs clarification,
\* and one whose retrieval raises, return here; the others hold their list.
QueryRetrieved(t, classification, retrieved) ==
    IF retrieved = Pending \/ retrieved.raised
    THEN /\ res' = [res EXCEPT ![t].classification = classification,
                               ![t].response =
                                   Classified(arg[t].query, arg[t].user_id, classification)]
         /\ issues' = issues
         /\ pc' = [pc EXCEPT ![t] = "done"]
    ELSE /\ res' = [res EXCEPT ![t].classification = classification,
                               ![t].retrieved = retrieved]
         /\ issues' = UniverseAfterRetrieve(classification)
         /\ pc' = [pc EXCEPT ![t] = "retrieved"]

\* Step 3 for caller t: the retrieval the classification asks for.
QueryClassified(t, classification) ==
    QueryRetrieved(t, classification,
                   IF classification.mode \in {"jql", "semantic", "hybrid"}
                   THEN Retrieve(classification) ELSE Pending)

\* Steps 1 to 3 of process_query for one caller: the classification and the
\* retrieval.
QueryRetrieve ==
    \E t \in Callers :
        /\ pc[t] = "call"
        /\ QueryClassified(t, classify(arg[t].query))
        /\ UNCHANGED <<permissions, op, arg>>

\* Step 4 for caller t on the records its list refers to; the filter is
\* handed the universe's own records.
QueryFiltered(t, list) ==
    /\ res' = [res EXCEPT ![t].filter_result = filter_issues(list, arg[t].user_id)]
    /\ issues' = [i \in DOMAIN issues |->
                     IF Place(list, issues[i].key) # 0
                     THEN InputAfterFilter(list, arg[t].user_id)[Place(list, issues[i].key)]
                     ELSE issues[i]]
    /\ pc' = [pc EXCEPT ![t] = "filtered"]

\* Step 4 of process_query for one caller.
QueryFilter ==
    \E t \in Callers :
        /\ pc[t] = "retrieved"
        /\ QueryFiltered(t, Referred(res[t].retrieved.issues))
        /\ UNCHANGED <<permissions, op, arg>>

\* Steps 5 to 8 of process_query for one caller.
QueryRespond ==
    \E t \in Callers :
        /\ pc[t] = "filtered"
        /\ res' = [res EXCEPT ![t].response =
                      Filtered(arg[t].query, res[t].classification,
                               [res[t].retrieved EXCEPT
                                   !.issues = Referred(res[t].retrieved.issues)],
                               res[t].filter_result)]
        /\ pc' = [pc EXCEPT ![t] = "done"]
        /\ UNCHANGED <<issues, permissions, op, arg>>

NextConcurrent == QueryRetrieve \/ QueryFilter \/ QueryRespond

SpecConcurrent == InitConcurrent /\ [][NextConcurrent]_vars

\* C28: no step of a query changes the record universe, the permission table
\* or the retrieval index, and however the steps of two queries interleave,
\* each query's response is the one process_query gives when it runs alone.
C28_QueriesOnlyRead ==
    /\ [][/\ issues' = issues
          /\ permissions' = permissions
          /\ doc_tokens' = doc_tokens]_vars
    /\ [](\A t \in Callers :
            pc[t] = "done" =>
                res[t].response = process_query(arg[t].query, arg[t].user_id))

\* C28 witness: one query has had its records filtered for a user who may not
\* read comments, while the other stands between its retrieval and its
\* filter, holding a record the first was given without its comments.
C28_Witness ==
    /\ pc[1] = "filtered" /\ pc[2] = "retrieved"
    /\ arg[1].user_id \in DOMAIN permissions
    /\ ~permissions[arg[1].user_id].can_view_comments
    /\ \E p \in DOMAIN res[1].filter_result.allowed_issues :
          LET given == res[1].filter_result.allowed_issues[p]
          IN  /\ given.redacted
              /\ \E q \in DOMAIN res[2].retrieved.issues :
                    /\ res[2].retrieved.issues[q].key = given.key
                    /\ res[2].retrieved.issues[q].comments \notin {<<>>, MissingList}
                    /\ Referred(res[2].retrieved.issues)[q] = res[2].retrieved.issues[q]

====
